---- MODULE Spec2Model ----
(***************************************************************************)
(* A model of the CopyBloomFX account engine (Django application           *)
(* "crypto"): profiles with locked / withdrawable balances and a rank,     *)
(* deposits and their expiry reaper, referral bonuses, withdrawals,        *)
(* simulated copy trades, promo codes and gateway (Paystack) deposits.     *)
(*                                                                         *)
(* Every request handler is a process that walks through its database     *)
(* statements one at a time.  The views run in autocommit mode without     *)
(* any lock (src/settings.py sets no ATOMIC_REQUESTS), so two requests     *)
(* interleave at statement boundaries; pc[p] is the position of request    *)
(* slot p inside its handler and loc[p] holds the Python objects it has    *)
(* loaded (model instances are snapshots of the row at read time).         *)
(*                                                                         *)
(* Money is counted in units of 1/10000 dollar, so that a stored           *)
(* DecimalField(decimal_places=2) value is a multiple of Cent and the      *)
(* in-memory product amount * REFERRAL_PCT (four decimals) is exact.       *)
(* Time is counted in seconds.                                             *)
(***************************************************************************)
EXTENDS Integers, Sequences, FiniteSets, TLC

(* ------------------------------------------------------------------ *)
(* Units and program constants                                         *)
(* ------------------------------------------------------------------ *)

\* One cent in model units: DecimalField(max_digits=18, decimal_places=2).
Cent == 100

\* One dollar in model units.
Dollar == 100 * Cent

\* timedelta(days=1) in seconds.
DaySeconds == 86400

\* utils.LOCK_DAYS
LOCK_DAYS == 30

\* utils.REFERRAL_PCT = Decimal('0.08'), as a number of hundredths.
REFERRAL_PCT == 8

\* complete_pending_trades: timedelta(seconds=35)
COMPLETE_SECONDS == 35

\* update_pending_trades_profit: "if seconds_elapsed < 10"
PROFIT_START_SECONDS == 10

\* update_pending_trades_profit: progress = min(seconds_elapsed / 30, 1.0)
PROGRESS_SECONDS == 30

(* ------------------------------------------------------------------ *)
(* Bounds of the model                                                 *)
(* ------------------------------------------------------------------ *)

\* Deposit rows that may ever be created.
MaxDeposits == 2

\* CopyTrade rows that may ever be created.
MaxTrades == 1

\* Withdrawal and LocalWithdrawal rows that may ever be created.
MaxWithdrawals == 1

\* LocalDeposit rows that may ever be created.
MaxLocalDeposits == 1

\* Gateway confirmations that may ever be delivered.
MaxConfirms == 1

\* PromoCode.usage_limit of the promo code.
PromoLimit == 1

\* Requests that may start while another one is being served, in the
\* specification of the whole ledger.
MaxOverlaps == 1

\* Trades a behaviour of the opening requests may create: one more than the
\* quota of the first rank.
MaxOpens == 3

\* Clock steps a behaviour may take.
MaxTicks == 1

\* Days by which one clock step advances the time.
TickDays == 30

Users == {"u1", "u2"}

NoUser == "none"

NoProc == 0

Procs == {1, 2}

\* Amounts a user may enter in DepositForm (two decimals, >= MIN_DEPOSIT):
\* $7.55 and $100.00.
AmountChoices == {755 * Cent, 100 * Dollar}

NoTime == -1

NoRank == 0

NoMax == -1

(* ------------------------------------------------------------------ *)
(* Rank table (models.Rank rows, ordered by min_balance)               *)
(* ------------------------------------------------------------------ *)

\* The admin-curated table: contiguous bands, the last one unbounded.
Ranks ==
  << [min_balance |-> 0,            max_balance |-> 100 * Dollar,
      daily_profit_pct |-> 5,  copy_trades_limit |-> 2],
     [min_balance |-> 100 * Dollar, max_balance |-> NoMax,
      daily_profit_pct |-> 10, copy_trades_limit |-> 5] >>

\* Profile.principal_balance
principal_balance(prof) == prof.locked_balance + prof.withdrawable_balance

\* The first index >= i of Ranks whose band matches balance p, or NoRank.
RECURSIVE FirstMatch(_, _)
FirstMatch(i, p) ==
  IF i > Len(Ranks) THEN NoRank
  ELSE IF /\ p >= Ranks[i].min_balance
          /\ (Ranks[i].max_balance = NoMax \/ p <= Ranks[i].max_balance)
       THEN i
       ELSE FirstMatch(i + 1, p)

\* Profile.get_rank
get_rank(prof) ==
  IF principal_balance(prof) <= 0 THEN NoRank
  ELSE FirstMatch(1, principal_balance(prof))

\* What a DecimalField(decimal_places=2) column keeps of a value on save:
\* the value quantized to a whole number of cents, ties to the even cent.
Round2(x) ==
  LET q == x \div Cent
      r == x % Cent
  IN  IF 2 * r < Cent THEN q * Cent
      ELSE IF 2 * r > Cent THEN (q + 1) * Cent
      ELSE IF q % 2 = 0 THEN q * Cent ELSE (q + 1) * Cent

\* The orders in which a query may return the rows ids when it sorts them by
\* key (a function of the row): every arrangement with non-decreasing keys (the order of rows with
\* equal keys is left to the database).
Orderings(ids, key) ==
  { s \in [1..Cardinality(ids) -> ids] :
      /\ \A i, j \in 1..Cardinality(ids) : i # j => s[i] # s[j]
      /\ \A i, j \in 1..Cardinality(ids) : i < j => key[s[i]] <= key[s[j]] }

\* utils.add_days
add_days(dt, n) == dt + n * DaySeconds

(* ------------------------------------------------------------------ *)
(* State                                                               *)
(* ------------------------------------------------------------------ *)

VARIABLES
  now,      \* timezone.now()
  db,       \* the database: one field per table
  depLock,  \* the request holding the row lock of a deposit (select_for_update)
  pc,       \* position of each request slot in its handler
  loc,      \* the objects each request has in memory
  hist      \* history of the credits, debits and claims performed so far

vars == << now, db, depLock, pc, loc, hist >>

\* Seconds a wallet assignment lasts ("current_time - assignment_time < 300").
LEASE_SECONDS == 300

\* Calls of get_available_wallet a behaviour may make.
MaxLeases == 3

\* WALLETS[network]: the address pool of one network, cut down to two addresses.
Wallets == {"w1", "w2"}

\* Three of the networks of WALLETS: 'USDT BEP20' and 'Ethereum' list the
\* same address strings, 'Solana' has addresses of its own, cut down to one.
Networks == {"USDT BEP20", "Ethereum", "Solana"}

WALLETS == [network \in Networks |-> IF network = "Solana" THEN {"s1"} ELSE Wallets]

\* Every address string: the possible keys of the cached dict.
Addresses == UNION {WALLETS[network] : network \in Networks}

NoNetwork == "no_network"

\* The user ids get_available_wallet is called with: one more than Wallets.
Holders == Users \cup {"u3"}

NoWallet == "no_wallet"

\* A wallet without an entry in the cached dict 'wallet_assignments'.
NoLease == [user_id |-> NoUser, timestamp |-> NoTime]

NoProf == [locked_balance |-> 0, withdrawable_balance |-> 0, rank |-> NoRank,
           total_referrals |-> 0, valid_referrals |-> 0, referral_earnings |-> 0]

NoRow == [id |-> 0]

Blank == [op |-> "idle", id |-> 0, row |-> NoRow, prof |-> NoProf, ref |-> NoProf,
          queue |-> << >>, u |-> NoUser,
          cache |-> [w \in Addresses |-> NoLease], at |-> NoTime, net |-> NoNetwork]

\* The tables after migration and sign-up of the users: a Profile per user
\* (created with zero balances and no rank), every other table empty, and
\* the cache without the key 'wallet_assignments'.
InitDb ==
  [profile       |-> [u \in Users |-> NoProf],
   deposits      |-> << >>,
   referrals     |-> << >>,
   notifications |-> << >>,
   withdrawals   |-> << >>,
   trades        |-> << >>,
   local_deposits |-> << >>,
   promo_usage   |-> 0,
   redemptions   |-> << >>,
   wallet_assignments |-> [w \in Addresses |-> NoLease]]

\* The observable outcome of the reaper: balances, ranks, deposit statuses and
\* the number of notifications.
ReapView(d) ==
  [balances |-> [u \in Users |-> << d.profile[u].locked_balance,
                                    d.profile[u].withdrawable_balance,
                                    d.profile[u].rank >>],
   statuses |-> [i \in 1..Len(d.deposits) |-> d.deposits[i].status],
   notes    |-> Len(d.notifications)]

NoLast == [op |-> "none", id |-> 0, u |-> NoUser, pre |-> InitDb]

NoRun == [view |-> ReapView(InitDb), at |-> NoTime, changed |-> FALSE]

\* track: whether the request history below is recorded; last: the request
\* being served (its handler, argument, user, time and the database it found);
\* reapPre: the database as the current reaper run found it; reapEnd: the
\* database as the latest reaper run at this time left it; again: whether the
\* current reaper run found the database as the latest run left it.
\* overlaps: how many more requests may start while another one is being
\* served, where limited; otherwise requests overlap without limit.
\* expL, expW: the balances after the operations performed so far, had each
\* taken effect exactly once; approvals, credits, bonuses, expiries: how often
\* each deposit was taken to approved / credited to its owner / paid to its
\* referrer / debited by the reaper; skipped: the due deposits the reaper
\* passed over; completions, payouts: how often each trade was marked
\* completed / paid out; refunds: how often each withdrawal was refunded;
\* promos: how often the promo bonus was credited to each user; leases: what
\* the calls of get_available_wallet returned, in the order of their return.
InitHist(track, limited, overlaps) ==
  [track     |-> track,
   limited   |-> limited,
   overlaps  |-> overlaps,
   last      |-> NoLast,
   reapPre   |-> NoRun,
   reapEnd   |-> NoRun,
   again     |-> FALSE,
   confirms  |-> 0,
   expL      |-> [u \in Users |-> 0],
   expW      |-> [u \in Users |-> 0],
   approvals |-> [d \in 1..MaxDeposits |-> 0],
   credits   |-> [d \in 1..MaxDeposits |-> 0],
   bonuses   |-> [d \in 1..MaxDeposits |-> 0],
   expiries  |-> [d \in 1..MaxDeposits |-> 0],
   skipped   |-> {},
   completions |-> [t \in 1..MaxTrades |-> 0],
   payouts   |-> [t \in 1..MaxTrades |-> 0],
   refunds   |-> [w \in 1..MaxWithdrawals |-> 0],
   promos    |-> [u \in Users |-> 0],
   leases    |-> << >>]

InitWith(track, limited, overlaps) ==
  /\ now = 0
  /\ db = InitDb
  /\ depLock = [d \in 1..MaxDeposits |-> NoProc]
  /\ pc = [p \in Procs |-> "idle"]
  /\ loc = [p \in Procs |-> Blank]
  /\ hist = InitHist(track, limited, overlaps)

\* The amount x of an operation that has taken effect n times before.
Once(n, x) == IF n = 0 THEN x ELSE 0

\* Records the request that starts now in slot p.
Track(p, op, id, u) ==
  hist' = [hist EXCEPT
             !.last = IF hist.track THEN [op |-> op, id |-> id, u |-> u, pre |-> db]
                      ELSE @,
             !.overlaps = IF p > 1 /\ hist.limited THEN @ - 1 ELSE @]

\* Request slots are interchangeable: a new request takes slot p only when
\* every slot before it is busy.  Where overlaps are limited, a request that
\* starts while another is being served uses up one overlap, and no third
\* request starts until both have returned.
CanStart(p) ==
  /\ pc[p] = "idle"
  /\ \A q \in Procs : q < p => pc[q] \notin {"idle", "done"}
  /\ (p > 1 /\ hist.limited) => hist.overlaps > 0
  /\ hist.limited => \A q \in Procs : q > p => pc[q] = "idle"

Goto(p, label) == pc' = [pc EXCEPT ![p] = label]

\* The handler returns its response.
Finish(p) ==
  /\ pc' = [pc EXCEPT ![p] = IF hist.track THEN "done" ELSE "idle"]
  /\ loc' = [loc EXCEPT ![p] = Blank]

\* The response of a recorded request has been delivered.
Return(p) ==
  /\ pc[p] = "done"
  /\ pc' = [pc EXCEPT ![p] = "idle"]
  /\ hist' = [hist EXCEPT !.last = NoLast]
  /\ UNCHANGED << now, db, depLock, loc >>

\* Profile.update_rank() on the in-memory object prof of user u: the rank
\* column is written only when the computed rank differs from prof.rank.
RankWrite(u, prof) ==
  IF get_rank(prof) # prof.rank
  THEN db' = [db EXCEPT !.profile[u].rank = get_rank(prof)]
  ELSE UNCHANGED db

(* ------------------------------------------------------------------ *)
(* The clock                                                           *)
(* ------------------------------------------------------------------ *)

\* Time passes up to one of the given moments.
Tick(times) ==
  /\ \E t \in times :
       /\ t > now
       /\ now' = t
  /\ hist' = [hist EXCEPT !.reapEnd = NoRun, !.again = FALSE]
  /\ UNCHANGED << db, depLock, pc, loc >>

(* ------------------------------------------------------------------ *)
(* finance_view, crypto deposit submission                             *)
(* ------------------------------------------------------------------ *)

\* The referrer a referral code resolves to: the code's owner unless that is
\* the submitting user or nobody (Profile.objects.filter(referral_code=...)
\* .exclude(user=request.user).first()).
ResolveReferrer(user, codeOwner) ==
  IF codeOwner = user THEN NoUser ELSE codeOwner

\* Deposit.objects.create(user=..., amount=amt, status='pending', referrer=...)
SubmitDeposit(p, owners, amounts, codes, cap) ==
  /\ CanStart(p)
  /\ Len(db.deposits) + Cardinality({q \in Procs : loc[q].op = "promo"}) < cap
  /\ \E user \in owners, amt \in amounts, codeOwner \in codes :
       /\ db' = [db EXCEPT !.deposits = Append(@,
                [user |-> user, amount |-> amt, status |-> "pending",
                 expires_at |-> NoTime, approved_at |-> NoTime,
                 referrer |-> ResolveReferrer(user, codeOwner)])]
       /\ Track(p, "submit", Len(db.deposits) + 1, user)
  /\ Finish(p)
  /\ UNCHANGED << now, depLock >>

(* ------------------------------------------------------------------ *)
(* utils.get_available_wallet                                          *)
(* ------------------------------------------------------------------ *)

\* The entries of the cached dict that are younger than five minutes at time t.
Cleaned(assignments, t) ==
  [w \in Addresses |->
     IF assignments[w] # NoLease /\ t - assignments[w].timestamp < LEASE_SECONDS
     THEN assignments[w] ELSE NoLease]

\* Free wallets only.
AvailableWallets_Free(network, assignments, user_id) ==
  {w \in WALLETS[network] : assignments[w] = NoLease}

\* all_wallets = WALLETS.get(network, ...): of the wallets listed for the
\* network, the free ones and the caller's own assigned ones.
AvailableWallets(network, assignments, user_id) ==
  {w \in WALLETS[network] : assignments[w] = NoLease \/ assignments[w].user_id = user_id}

\* 300 - (current_time - oldest_time) for the oldest assignment.
TimeRemaining(assignments, t) ==
  LET held   == {w \in Addresses : assignments[w] # NoLease}
      oldest == CHOOSE w \in held :
                  \A v \in held : assignments[w].timestamp <= assignments[v].timestamp
  IN  LEASE_SECONDS - (t - assignments[oldest].timestamp)

\* assignments = cache.get('wallet_assignments', {}); current_time = now;
\* the expired entries are dropped from the caller's copy.  The cache's own
\* timeout of 300 s counts from the latest cache.set, which no entry
\* postdates, so it only removes entries the cleaning removes as well.
GAW_Start(p, holders, networks, cap) ==
  /\ CanStart(p)
  /\ Len(hist.leases) + Cardinality({q \in Procs : loc[q].op = "lease"}) < cap
  /\ \E h \in holders, network \in networks :
       /\ loc' = [loc EXCEPT ![p] =
                    [Blank EXCEPT !.op = "lease", !.u = h, !.at = now, !.net = network,
                                  !.cache = Cleaned(db.wallet_assignments, now)]]
       /\ Track(p, "lease", 0, h)
  /\ Goto(p, "gaw_clean")
  /\ UNCHANGED << now, db, depLock >>

\* cache.set('wallet_assignments', cleaned_assignments, 300)
GAW_Clean(p) ==
  /\ pc[p] = "gaw_clean"
  /\ db' = [db EXCEPT !.wallet_assignments = loc[p].cache]
  /\ Goto(p, "gaw_pick")
  /\ UNCHANGED << now, depLock, loc, hist >>

\* With no available wallet and time remaining: "return None, time_remaining".
GAW_None(p) ==
  /\ pc[p] = "gaw_pick"
  /\ AvailableWallets(loc[p].net, loc[p].cache, loc[p].u) = {}
  /\ TimeRemaining(loc[p].cache, loc[p].at) > 0
  /\ hist' = [hist EXCEPT !.leases =
                Append(@, [holder |-> loc[p].u, wallet |-> NoWallet, at |-> loc[p].at,
                           network |-> loc[p].net,
                           wait |-> TimeRemaining(loc[p].cache, loc[p].at)])]
  /\ Finish(p)
  /\ UNCHANGED << now, db, depLock >>

\* selected_wallet = random.choice(available_wallets); the assignment is
\* recorded in the caller's copy, which replaces the cached dict:
\* cache.set('wallet_assignments', cleaned_assignments, 300).
GAW_Assign(p) ==
  /\ pc[p] = "gaw_pick"
  /\ \E w \in AvailableWallets(loc[p].net, loc[p].cache, loc[p].u) :
       /\ db' = [db EXCEPT !.wallet_assignments =
                   [loc[p].cache EXCEPT ![w] = [user_id |-> loc[p].u,
                                                timestamp |-> loc[p].at]]]
       /\ hist' = [hist EXCEPT !.leases =
                     Append(@, [holder |-> loc[p].u, wallet |-> w, at |-> loc[p].at,
                                network |-> loc[p].net,
                                wait |-> 0])]
  /\ Finish(p)
  /\ UNCHANGED << now, depLock >>

(* ------------------------------------------------------------------ *)
(* finance_view, crypto deposit submission with its wallet assignment  *)
(* ------------------------------------------------------------------ *)

\* The form is valid; wallet, time_remaining = get_available_wallet(net,
\* request.user.id) begins: assignments = cache.get('wallet_assignments', {}),
\* current_time = now, the expired entries are dropped from the copy.
FV_Start(p, owners, amounts, cap) ==
  /\ CanStart(p)
  /\ Len(hist.leases) + Cardinality({q \in Procs : pc[q] \in {"fv_clean", "fv_pick"}}) < cap
  /\ \E user \in owners, amt \in amounts :
       /\ loc' = [loc EXCEPT ![p] =
                    [Blank EXCEPT !.op = "finance", !.u = user, !.id = amt, !.at = now,
                                  !.net = "USDT BEP20",
                                  !.cache = Cleaned(db.wallet_assignments, now)]]
       /\ Track(p, "finance", 0, user)
  /\ Goto(p, "fv_clean")
  /\ UNCHANGED << now, db, depLock >>

\* cache.set('wallet_assignments', cleaned_assignments, 300)
FV_Clean(p) ==
  /\ pc[p] = "fv_clean"
  /\ db' = [db EXCEPT !.wallet_assignments = loc[p].cache]
  /\ Goto(p, "fv_pick")
  /\ UNCHANGED << now, depLock, loc, hist >>

\* get_available_wallet returns (None, time_remaining); "if wallet is None":
\* the waiting message is shown and the view redirects before
\* Deposit.objects.create.
FV_Refused(p) ==
  /\ pc[p] = "fv_pick"
  /\ AvailableWallets(loc[p].net, loc[p].cache, loc[p].u) = {}
  /\ TimeRemaining(loc[p].cache, loc[p].at) > 0
  /\ hist' = [hist EXCEPT !.leases =
                Append(@, [holder |-> loc[p].u, wallet |-> NoWallet, at |-> loc[p].at,
                           network |-> loc[p].net,
                           wait |-> TimeRemaining(loc[p].cache, loc[p].at)])]
  /\ Finish(p)
  /\ UNCHANGED << now, db, depLock >>

\* get_available_wallet records the assignment of the wallet it drew and
\* returns (selected_wallet, None).
FV_Assign(p) ==
  /\ pc[p] = "fv_pick"
  /\ \E w \in AvailableWallets(loc[p].net, loc[p].cache, loc[p].u) :
       /\ db' = [db EXCEPT !.wallet_assignments =
                   [loc[p].cache EXCEPT ![w] = [user_id |-> loc[p].u,
                                                timestamp |-> loc[p].at]]]
       /\ hist' = [hist EXCEPT !.leases =
                     Append(@, [holder |-> loc[p].u, wallet |-> w, at |-> loc[p].at,
                                network |-> loc[p].net,
                                wait |-> 0])]
  /\ Goto(p, "fv_create")
  /\ UNCHANGED << now, depLock, loc >>

\* Deposit.objects.create(user=request.user, amount=amt, network=net,
\* wallet_address=wallet, referrer=ref, status='pending')
FV_Create(p) ==
  /\ pc[p] = "fv_create"
  /\ db' = [db EXCEPT !.deposits = Append(@,
              [user |-> loc[p].u, amount |-> loc[p].id, status |-> "pending",
               expires_at |-> NoTime, approved_at |-> NoTime, referrer |-> NoUser])]
  /\ Finish(p)
  /\ UNCHANGED << now, depLock, hist >>

(* ------------------------------------------------------------------ *)
(* Deposit approval: the steps shared by both entry points             *)
(* ------------------------------------------------------------------ *)

\* The deposit row after approval, as both entry points write it.
ApprovedRow(row, t) ==
  [row EXCEPT !.status = "approved",
              !.approved_at = t,
              !.expires_at = IF row.expires_at # NoTime THEN row.expires_at
                             ELSE add_days(t, LOCK_DAYS)]

\* "if d.referrer_id and d.referrer_id != d.user_id"
HasReferrer(row) == row.referrer # NoUser /\ row.referrer # row.user

\* bonus = d.amount * REFERRAL_PCT
Bonus(amount) == (amount * REFERRAL_PCT) \div 100

\* The referrer's profile object after the in-memory referral credit.
CreditReferral(prof, bonus) ==
  [prof EXCEPT !.locked_balance = @ + bonus,
               !.total_referrals = @ + 1,
               !.valid_referrals = @ + 1,
               !.referral_earnings = @ + bonus]

\* A whole-row Profile.save(): every decimal column is quantized to cents.
SavedProfile(prof) ==
  [prof EXCEPT !.locked_balance = Round2(@),
               !.withdrawable_balance = Round2(@),
               !.referral_earnings = Round2(@)]

\* The Referral row of an approval.
ReferralRow(row, d) ==
  [referrer |-> row.referrer, referee |-> row.user,
   bonus_amount |-> Round2(Bonus(row.amount)), deposit |-> d]

\* d.save(update_fields=['status', 'approved_at', 'expires_at']); the UPDATE
\* waits while another transaction holds the row lock.
SaveApproved(p, here, withRef, withoutRef) ==
  /\ pc[p] = here
  /\ depLock[loc[p].id] \in {NoProc, p}
  /\ LET d == loc[p].id
         new == ApprovedRow(loc[p].row, now)
     IN  /\ db' = [db EXCEPT !.deposits[d].status = new.status,
                             !.deposits[d].approved_at = new.approved_at,
                             !.deposits[d].expires_at = new.expires_at]
         /\ loc' = [loc EXCEPT ![p].row = new]
         /\ hist' = [hist EXCEPT !.approvals[d] = @ + 1]
         /\ Goto(p, IF HasReferrer(new) THEN withRef ELSE withoutRef)
  /\ UNCHANGED << now, depLock >>

\* ref_profile = Profile.objects.filter(user_id=d.referrer_id).first(), then
\* the four in-memory updates.
RefRead(p, here, next) ==
  /\ pc[p] = here
  /\ loc' = [loc EXCEPT ![p].ref =
               CreditReferral(db.profile[loc[p].row.referrer], Bonus(loc[p].row.amount))]
  /\ Goto(p, next)
  /\ UNCHANGED << now, db, depLock, hist >>

\* ref_profile.save()
RefSave(p, here, next) ==
  /\ pc[p] = here
  /\ LET r == loc[p].row.referrer IN
       /\ db' = [db EXCEPT !.profile[r] = SavedProfile(loc[p].ref)]
       /\ hist' = [hist EXCEPT
                    !.expL[r] = @ + Once(hist.bonuses[loc[p].id],
                                         Round2(Bonus(loc[p].row.amount))),
                    !.bonuses[loc[p].id] = @ + 1]
  /\ Goto(p, next)
  /\ UNCHANGED << now, depLock, loc >>

\* Referral.objects.create(...)
RefCreate(p, here, next) ==
  /\ pc[p] = here
  /\ db' = [db EXCEPT !.referrals = Append(@, ReferralRow(loc[p].row, loc[p].id))]
  /\ Goto(p, next)
  /\ UNCHANGED << now, depLock, loc, hist >>

\* ref_profile.update_rank()
RefRank(p, here, next) ==
  /\ pc[p] = here
  /\ RankWrite(loc[p].row.referrer, loc[p].ref)
  /\ Goto(p, next)
  /\ UNCHANGED << now, depLock, loc, hist >>

\* profile.save(update_fields=['locked_balance']) of the deposit's owner
SaveOwner(p, here, next) ==
  /\ pc[p] = here
  /\ LET u == loc[p].row.user IN
       /\ db' = [db EXCEPT !.profile[u].locked_balance = Round2(loc[p].prof.locked_balance)]
       /\ hist' = [hist EXCEPT
                    !.expL[u] = @ + Once(hist.credits[loc[p].id], loc[p].row.amount),
                    !.credits[loc[p].id] = @ + 1]
  /\ Goto(p, next)
  /\ UNCHANGED << now, depLock, loc >>

(* ------------------------------------------------------------------ *)
(* admin_deposit_approve_view (crypto branch)                          *)
(* ------------------------------------------------------------------ *)

\* d = get_object_or_404(Deposit, pk=pk); "if d.status != 'pending': return"
AV_Start(p) ==
  /\ CanStart(p)
  /\ \E d \in 1..Len(db.deposits) :
       /\ Track(p, "approve_view", d, db.deposits[d].user)
       /\ IF db.deposits[d].status # "pending"
          THEN Finish(p) /\ UNCHANGED << now, db, depLock >>
          ELSE /\ Goto(p, "av_profile")
               /\ loc' = [loc EXCEPT ![p] =
                            [Blank EXCEPT !.op = "approve_view", !.id = d,
                                          !.row = db.deposits[d]]]
               /\ UNCHANGED << now, db, depLock >>

\* profile = get_object_or_404(Profile, user=d.user);
\* profile.locked_balance += d.amount (in memory)
AV_Profile(p) ==
  /\ pc[p] = "av_profile"
  /\ LET prof == db.profile[loc[p].row.user] IN
       loc' = [loc EXCEPT ![p].prof =
                 [prof EXCEPT !.locked_balance = @ + loc[p].row.amount]]
  /\ Goto(p, "av_save_dep")
  /\ UNCHANGED << now, db, depLock, hist >>

AV_SaveDeposit(p) == SaveApproved(p, "av_save_dep", "av_ref_read", "av_save_prof")

AV_RefRead(p) == RefRead(p, "av_ref_read", "av_ref_save")

AV_RefSave(p) == RefSave(p, "av_ref_save", "av_referral")

AV_Referral(p) == RefCreate(p, "av_referral", "av_ref_rank")

AV_RefRank(p) == RefRank(p, "av_ref_rank", "av_save_prof")

\* The view without its final profile.save().
AV_SaveProfile_Skip(p) ==
  /\ pc[p] = "av_save_prof"
  /\ Goto(p, "av_rank")
  /\ UNCHANGED << now, db, depLock, loc, hist >>

AV_SaveProfile(p) == SaveOwner(p, "av_save_prof", "av_rank")

\* profile.update_rank()
AV_Rank(p) ==
  /\ pc[p] = "av_rank"
  /\ RankWrite(loc[p].row.user, loc[p].prof)
  /\ Finish(p)
  /\ UNCHANGED << now, depLock, hist >>

(* ------------------------------------------------------------------ *)
(* admin.approve_deposits (the Django admin action, one selected row)  *)
(* ------------------------------------------------------------------ *)

\* "with transaction.atomic(): for deposit in queryset.select_for_update()":
\* the row is read under a row lock that is held until the transaction ends;
\* "if deposit.status != 'pending': continue" ends it at once.
AA_Start(p) ==
  /\ CanStart(p)
  /\ \E d \in 1..Len(db.deposits) :
       /\ depLock[d] = NoProc
       /\ Track(p, "approve_action", d, db.deposits[d].user)
       /\ IF db.deposits[d].status # "pending"
          THEN Finish(p) /\ UNCHANGED << now, db, depLock >>
          ELSE /\ Goto(p, "aa_profile")
               /\ depLock' = [depLock EXCEPT ![d] = p]
               /\ loc' = [loc EXCEPT ![p] =
                            [Blank EXCEPT !.op = "approve_action", !.id = d,
                                          !.row = db.deposits[d]]]
               /\ UNCHANGED << now, db >>

\* profile = deposit.user.profile; profile.locked_balance += deposit.amount
AA_Profile(p) ==
  /\ pc[p] = "aa_profile"
  /\ LET prof == db.profile[loc[p].row.user] IN
       loc' = [loc EXCEPT ![p].prof =
                 [prof EXCEPT !.locked_balance = @ + loc[p].row.amount]]
  /\ Goto(p, "aa_save_prof")
  /\ UNCHANGED << now, db, depLock, hist >>

AA_SaveProfile(p) == SaveOwner(p, "aa_save_prof", "aa_save_dep")

AA_SaveDeposit(p) == SaveApproved(p, "aa_save_dep", "aa_ref_read", "aa_rank")

AA_RefRead(p) == RefRead(p, "aa_ref_read", "aa_ref_save")

AA_RefSave(p) == RefSave(p, "aa_ref_save", "aa_referral")

AA_Referral(p) == RefCreate(p, "aa_referral", "aa_ref_rank")

AA_RefRank(p) == RefRank(p, "aa_ref_rank", "aa_rank")

\* profile.update_rank()
AA_Rank(p) ==
  /\ pc[p] = "aa_rank"
  /\ RankWrite(loc[p].row.user, loc[p].prof)
  /\ Goto(p, "aa_notify")
  /\ UNCHANGED << now, depLock, loc, hist >>

\* Notification.objects.create(user=deposit.user, message="Deposit ... approved
\* and credited ..."); the atomic block then commits and releases the lock.
AA_Notify(p) ==
  /\ pc[p] = "aa_notify"
  /\ db' = [db EXCEPT !.notifications =
              Append(@, [user |-> loc[p].row.user, kind |-> "approved",
                         deposit |-> loc[p].id])]
  /\ depLock' = [depLock EXCEPT ![loc[p].id] = NoProc]
  /\ Finish(p)
  /\ UNCHANGED << now, hist >>

(* ------------------------------------------------------------------ *)
(* Interrupted approvals                                               *)
(* ------------------------------------------------------------------ *)

\* The view runs in autocommit (no transaction.atomic, ATOMIC_REQUESTS unset):
\* when a statement raises or the worker stops, every save() issued before
\* that point stays committed and the rest of the handler never runs.
AV_Fail(p) ==
  /\ pc[p] \in {"av_profile", "av_save_dep", "av_ref_read", "av_ref_save",
                "av_referral", "av_ref_rank", "av_save_prof", "av_rank"}
  /\ Finish(p)
  /\ UNCHANGED << now, db, depLock, hist >>

\* The admin action runs inside "with transaction.atomic()": an exception
\* leaving the block rolls back every write of the action and releases the
\* row lock.  The lock kept every other writer away from the deposit, and
\* the requests of a recorded run do not overlap, so the rolled-back
\* database is the one the action started from; the bookkeeping of the
\* undone writes is undone with them.
AA_Fail(p) ==
  /\ pc[p] \in {"aa_profile", "aa_save_prof", "aa_save_dep", "aa_ref_read",
                "aa_ref_save", "aa_referral", "aa_ref_rank", "aa_rank", "aa_notify"}
  /\ hist.track /\ hist.limited /\ hist.last.op = "approve_action"
  /\ db' = hist.last.pre
  /\ depLock' = [depLock EXCEPT ![loc[p].id] = NoProc]
  /\ LET d == loc[p].id
         row == hist.last.pre.deposits[d]
         undo(u) == (IF u = row.user /\ hist.credits[d] > 0 THEN row.amount ELSE 0)
                    + (IF HasReferrer(row) /\ u = row.referrer /\ hist.bonuses[d] > 0
                       THEN Round2(Bonus(row.amount)) ELSE 0)
     IN  hist' = [hist EXCEPT !.approvals[d] = 0, !.credits[d] = 0, !.bonuses[d] = 0,
                              !.expL = [u \in Users |-> @[u] - undo(u)]]
  /\ Finish(p)
  /\ UNCHANGED now

(* ------------------------------------------------------------------ *)
(* admin_deposit_reject_view (crypto branch)                           *)
(* ------------------------------------------------------------------ *)

\* d = get_object_or_404(Deposit, pk=pk); "if d.status != 'pending': return"
RJ_Start(p) ==
  /\ CanStart(p)
  /\ \E d \in 1..Len(db.deposits) :
       /\ Track(p, "reject_view", d, db.deposits[d].user)
       /\ IF db.deposits[d].status # "pending"
          THEN Finish(p) /\ UNCHANGED << now, db, depLock >>
          ELSE /\ Goto(p, "rj_save")
               /\ loc' = [loc EXCEPT ![p] =
                            [Blank EXCEPT !.op = "reject_view", !.id = d,
                                          !.row = db.deposits[d]]]
               /\ UNCHANGED << now, db, depLock >>

\* d.status = 'rejected'; d.approved_at = timezone.now();
\* d.save(update_fields=['status', 'approved_at'])
RJ_Save(p) ==
  /\ pc[p] = "rj_save"
  /\ depLock[loc[p].id] = NoProc
  /\ db' = [db EXCEPT !.deposits[loc[p].id].status = "rejected",
                      !.deposits[loc[p].id].approved_at = now]
  /\ Finish(p)
  /\ UNCHANGED << now, depLock, hist >>

(* ------------------------------------------------------------------ *)
(* dashboard_view                                                      *)
(* ------------------------------------------------------------------ *)

\* The profit update_pending_trades_profit computes for a trade pending for
\* elapsed >= PROFIT_START_SECONDS seconds of a user with profile prof, in
\* millionths of a dollar.  r1 and r3 are the first and third random.random()
\* draws in tenths, above is the outcome of "random.random() < 0.6".
ProfitPerTrade(prof) ==
  LET rank == get_rank(prof)
      potential == IF /\ rank # NoRank
                      /\ prof.locked_balance > 0
                      /\ Ranks[rank].daily_profit_pct # 0
                   THEN (prof.locked_balance * Ranks[rank].daily_profit_pct) \div 100
                   ELSE 50 * Cent
      limit == IF rank # NoRank THEN Ranks[rank].copy_trades_limit ELSE 1
  IN  IF limit > 0 THEN (potential * 100) \div limit ELSE 50 * Cent * 100

TargetProfit(prof, r1, above) ==
  LET ppt == ProfitPerTrade(prof)
      variance == ((5 + r1) * ppt) \div 200
      target == IF above THEN ppt + variance ELSE ppt - variance
  IN  IF target > Cent * 100 THEN target ELSE Cent * 100

CurrentProfit(prof, elapsed, r1, above, r3) ==
  LET target == TargetProfit(prof, r1, above)
      secs == IF elapsed < PROGRESS_SECONDS THEN elapsed ELSE PROGRESS_SECONDS
      x == (target * secs) \div PROGRESS_SECONDS
      f == 950 + 15 * r3
  IN  (x \div 1000) * f + ((x % 1000) * f) \div 1000

\* A profit in millionths of a dollar as the CopyTrade.profit column
\* (decimal_places=2) stores it, in model units.
StoredProfit(x) ==
  LET q == x \div (Cent * 100)
      r == x % (Cent * 100)
  IN  IF 2 * r < Cent * 100 THEN q * Cent
      ELSE IF 2 * r > Cent * 100 THEN (q + 1) * Cent
      ELSE IF q % 2 = 0 THEN q * Cent ELSE (q + 1) * Cent

\* "if profile.locked_balance >= deposit.amount"
ReapGuard(prof, amount) == prof.locked_balance >= amount

Pop(p) == loc' = [loc EXCEPT ![p].queue = Tail(@)]

\* The request starts with update_pending_trades_profit():
\* pending_trades = CopyTrade.objects.filter(status='pending'), in the model's
\* Meta ordering ['-created_at'].
DB_Start(p, users) ==
  /\ CanStart(p)
  /\ \E u \in users :
     \E q \in Orderings({t \in 1..Len(db.trades) : db.trades[t].status = "pending"},
                        [t \in 1..Len(db.trades) |-> 0 - db.trades[t].created_at]) :
       /\ loc' = [loc EXCEPT ![p] = [Blank EXCEPT !.op = "dashboard", !.u = u, !.queue = q]]
       /\ Track(p, "dashboard", 0, u)
  /\ Goto(p, "up_loop")
  /\ UNCHANGED << now, db, depLock >>

\* "if seconds_elapsed < 10: trade.profit = Decimal('0')";
\* trade.save(update_fields=['profit'])
UP_Zero(p) ==
  /\ pc[p] = "up_loop"
  /\ loc[p].queue # << >>
  /\ LET t == Head(loc[p].queue) IN
       /\ now - db.trades[t].created_at < PROFIT_START_SECONDS
       /\ db' = [db EXCEPT !.trades[t].profit = 0]
  /\ Pop(p)
  /\ UNCHANGED << now, depLock, pc, hist >>

\* profile = trade.user.profile and the computation of current_profit
UP_Read(p, draws) ==
  /\ pc[p] = "up_loop"
  /\ loc[p].queue # << >>
  /\ LET t == Head(loc[p].queue)
         elapsed == now - db.trades[t].created_at
     IN  /\ elapsed >= PROFIT_START_SECONDS
         /\ \E r1 \in draws, r3 \in draws, above \in BOOLEAN :
              loc' = [loc EXCEPT ![p].id =
                        StoredProfit(CurrentProfit(db.profile[db.trades[t].user],
                                                   elapsed, r1, above, r3))]
  /\ Goto(p, "up_save")
  /\ UNCHANGED << now, db, depLock, hist >>

\* trade.profit = current_profit; trade.save(update_fields=['profit'])
UP_Save(p) ==
  /\ pc[p] = "up_save"
  /\ db' = [db EXCEPT !.trades[Head(loc[p].queue)].profit = loc[p].id]
  /\ loc' = [loc EXCEPT ![p].queue = Tail(@), ![p].id = 0]
  /\ Goto(p, "up_loop")
  /\ UNCHANGED << now, depLock, hist >>

\* The completion query with a strict age bound.
CT_Query_Late(p) ==
  /\ pc[p] = "up_loop"
  /\ loc[p].queue = << >>
  /\ \E q \in Orderings({t \in 1..Len(db.trades) :
                           /\ db.trades[t].status = "pending"
                           /\ db.trades[t].created_at < now - COMPLETE_SECONDS},
                        [t \in 1..Len(db.trades) |-> 0 - db.trades[t].created_at]) :
       loc' = [loc EXCEPT ![p].queue =
                 [i \in 1..Len(q) |-> [id |-> q[i], profit |-> db.trades[q[i]].profit]]]
  /\ Goto(p, "ct_loop")
  /\ UNCHANGED << now, db, depLock, hist >>

\* complete_pending_trades(): pending_trades = CopyTrade.objects.filter(
\* status='pending', created_at__lte=now - 35 s); each trade object keeps the
\* profit it had when the query ran.
CT_Query(p) ==
  /\ pc[p] = "up_loop"
  /\ loc[p].queue = << >>
  /\ \E q \in Orderings({t \in 1..Len(db.trades) :
                           /\ db.trades[t].status = "pending"
                           /\ db.trades[t].created_at <= now - COMPLETE_SECONDS},
                        [t \in 1..Len(db.trades) |-> 0 - db.trades[t].created_at]) :
       loc' = [loc EXCEPT ![p].queue =
                 [i \in 1..Len(q) |-> [id |-> q[i], profit |-> db.trades[q[i]].profit]]]
  /\ Goto(p, "ct_loop")
  /\ UNCHANGED << now, db, depLock, hist >>

\* trade.status = 'completed'; trade.save(update_fields=['status'])
CT_SaveTrade(p) ==
  /\ pc[p] = "ct_loop"
  /\ loc[p].queue # << >>
  /\ db' = [db EXCEPT !.trades[Head(loc[p].queue).id].status = "completed"]
  /\ hist' = [hist EXCEPT !.completions[Head(loc[p].queue).id] = @ + 1]
  /\ Goto(p, "ct_profile")
  /\ UNCHANGED << now, depLock, loc >>

\* profile = trade.user.profile; profile.withdrawable_balance += final_profit
CT_Profile(p) ==
  /\ pc[p] = "ct_profile"
  /\ LET t == Head(loc[p].queue)
         prof == db.profile[db.trades[t.id].user]
     IN  loc' = [loc EXCEPT ![p].prof =
                   [prof EXCEPT !.withdrawable_balance = @ + t.profit]]
  /\ Goto(p, "ct_save")
  /\ UNCHANGED << now, db, depLock, hist >>

\* profile.save(update_fields=['withdrawable_balance'])
CT_SaveProfile(p) ==
  /\ pc[p] = "ct_save"
  /\ LET t == Head(loc[p].queue)
         u == db.trades[t.id].user
     IN  /\ db' = [db EXCEPT !.profile[u].withdrawable_balance =
                               Round2(loc[p].prof.withdrawable_balance)]
         /\ hist' = [hist EXCEPT !.expW[u] = @ + Once(hist.payouts[t.id], t.profit),
                                 !.payouts[t.id] = @ + 1]
  /\ loc' = [loc EXCEPT ![p].queue = Tail(@), ![p].prof = NoProf]
  /\ Goto(p, "ct_loop")
  /\ UNCHANGED << now, depLock >>

\* The query without its expires_at filter: every approved deposit.
RP_Query_Early(p) ==
  /\ pc[p] = "ct_loop"
  /\ loc[p].queue = << >>
  /\ \E q \in Orderings({d \in 1..Len(db.deposits) : db.deposits[d].status = "approved"},
                        [d \in 1..Len(db.deposits) |-> db.deposits[d].approved_at]) :
       loc' = [loc EXCEPT ![p].queue = q]
  /\ UNCHANGED hist
  /\ Goto(p, "rp_loop")
  /\ UNCHANGED << now, db, depLock >>

\* process_expired_deposits(): Deposit.objects.filter(status='approved',
\* expires_at__lte=now).order_by('approved_at')
RP_Query(p) ==
  /\ pc[p] = "ct_loop"
  /\ loc[p].queue = << >>
  /\ \E q \in Orderings({d \in 1..Len(db.deposits) :
                           /\ db.deposits[d].status = "approved"
                           /\ db.deposits[d].expires_at <= now},
                        [d \in 1..Len(db.deposits) |-> db.deposits[d].approved_at]) :
       loc' = [loc EXCEPT ![p].queue = q]
  /\ hist' = IF hist.track
             THEN [hist EXCEPT !.reapPre = [view |-> ReapView(db), at |-> now,
                                            changed |-> FALSE],
                               !.again = /\ hist.reapEnd.at = now
                                         /\ hist.reapEnd.view = ReapView(db)]
             ELSE hist
  /\ Goto(p, "rp_loop")
  /\ UNCHANGED << now, db, depLock >>

\* profile = deposit.user.profile; "if profile.locked_balance >= deposit.amount"
\* fails: the deposit is passed over and nothing is written.
RP_Skip(p) ==
  /\ pc[p] = "rp_loop"
  /\ loc[p].queue # << >>
  /\ LET d == Head(loc[p].queue) IN
       ~ ReapGuard(db.profile[db.deposits[d].user], db.deposits[d].amount)
  /\ hist' = [hist EXCEPT !.skipped = @ \cup {Head(loc[p].queue)}]
  /\ Pop(p)
  /\ UNCHANGED << now, db, depLock, pc >>

\* profile = deposit.user.profile; the check holds;
\* profile.locked_balance -= deposit.amount
RP_Read(p) ==
  /\ pc[p] = "rp_loop"
  /\ loc[p].queue # << >>
  /\ LET d == Head(loc[p].queue)
         prof == db.profile[db.deposits[d].user]
     IN  /\ ReapGuard(prof, db.deposits[d].amount)
         /\ loc' = [loc EXCEPT ![p].prof =
                      [prof EXCEPT !.locked_balance = @ - db.deposits[d].amount]]
  /\ Goto(p, "rp_save_prof")
  /\ UNCHANGED << now, db, depLock, hist >>

\* profile.save(update_fields=['locked_balance'])
RP_SaveProfile(p) ==
  /\ pc[p] = "rp_save_prof"
  /\ LET d == Head(loc[p].queue)
         u == db.deposits[d].user
     IN  /\ db' = [db EXCEPT !.profile[u].locked_balance = Round2(loc[p].prof.locked_balance)]
         /\ hist' = [hist EXCEPT
                      !.expL[u] = @ - Once(hist.expiries[d], db.deposits[d].amount),
                      !.expiries[d] = @ + 1]
  /\ Goto(p, "rp_save_dep")
  /\ UNCHANGED << now, depLock, loc >>

\* The reaper without the write of the status.
RP_SaveDeposit_Keep(p) ==
  /\ pc[p] = "rp_save_dep"
  /\ depLock[Head(loc[p].queue)] = NoProc
  /\ Goto(p, "rp_rank")
  /\ UNCHANGED << now, db, depLock, loc, hist >>

\* deposit.status = 'expired'; deposit.save(update_fields=['status'])
RP_SaveDeposit(p) ==
  /\ pc[p] = "rp_save_dep"
  /\ depLock[Head(loc[p].queue)] = NoProc
  /\ db' = [db EXCEPT !.deposits[Head(loc[p].queue)].status = "expired"]
  /\ Goto(p, "rp_rank")
  /\ UNCHANGED << now, depLock, loc, hist >>

\* old_rank = profile.rank; new_rank = profile.get_rank();
\* "if old_rank != new_rank": profile.rank = new_rank;
\* profile.save(update_fields=['rank'])
RP_Rank(p) ==
  /\ pc[p] = "rp_rank"
  /\ LET d == Head(loc[p].queue)
         new_rank == get_rank(loc[p].prof)
     IN  IF loc[p].prof.rank # new_rank
         THEN /\ db' = [db EXCEPT !.profile[db.deposits[d].user].rank = new_rank]
              /\ Goto(p, "rp_notify")
              /\ UNCHANGED loc
         ELSE /\ loc' = [loc EXCEPT ![p].queue = Tail(@), ![p].prof = NoProf]
              /\ Goto(p, "rp_loop")
              /\ UNCHANGED db
  /\ UNCHANGED << now, depLock, hist >>

\* Notification.objects.create(user=deposit.user, message="Your rank has been
\* demoted from ... to ... due to expired deposit.")
RP_Notify(p) ==
  /\ pc[p] = "rp_notify"
  /\ LET d == Head(loc[p].queue) IN
       db' = [db EXCEPT !.notifications =
                Append(@, [user |-> db.deposits[d].user, kind |-> "demoted",
                           deposit |-> d])]
  /\ loc' = [loc EXCEPT ![p].queue = Tail(@), ![p].prof = NoProf]
  /\ Goto(p, "rp_loop")
  /\ UNCHANGED << now, depLock, hist >>

\* Records the end of a reaper run, with the time of its query.
ReapEnd ==
  hist' = IF hist.track
          THEN [hist EXCEPT !.reapEnd = [view |-> ReapView(db), at |-> hist.reapPre.at,
                                         changed |-> ReapView(db) # hist.reapPre.view],
                            !.reapPre = NoRun,
                            !.again = FALSE]
          ELSE hist

\* profile = request.user.profile; profile.update_rank() finds the stored rank
\* up to date: the rest of the view only reads.
DB_Done(p) ==
  /\ pc[p] = "rp_loop"
  /\ loc[p].queue = << >>
  /\ get_rank(db.profile[loc[p].u]) = db.profile[loc[p].u].rank
  /\ ReapEnd
  /\ Finish(p)
  /\ UNCHANGED << now, db, depLock >>

\* profile = request.user.profile; update_rank() finds another rank
DB_Profile(p) ==
  /\ pc[p] = "rp_loop"
  /\ loc[p].queue = << >>
  /\ get_rank(db.profile[loc[p].u]) # db.profile[loc[p].u].rank
  /\ loc' = [loc EXCEPT ![p].prof = db.profile[loc[p].u]]
  /\ ReapEnd
  /\ Goto(p, "db_rank")
  /\ UNCHANGED << now, db, depLock >>

\* self.rank = new_rank; self.save(update_fields=['rank'])
DB_Rank(p) ==
  /\ pc[p] = "db_rank"
  /\ RankWrite(loc[p].u, loc[p].prof)
  /\ Finish(p)
  /\ UNCHANGED << now, depLock, hist >>

(* ------------------------------------------------------------------ *)
(* admin.CopyTradeAdmin                                                *)
(* ------------------------------------------------------------------ *)

\* The change form of the registered ModelAdmin: every field but created_at
\* is editable, so a staff user may set a pending trade to 'cancelled'.
TA_Cancel ==
  /\ \E t \in 1..Len(db.trades) :
       /\ db.trades[t].status = "pending"
       /\ db' = [db EXCEPT !.trades[t].status = "cancelled"]
  /\ UNCHANGED << now, depLock, pc, loc, hist >>

(* ------------------------------------------------------------------ *)
(* copy_trade_simulate_view                                            *)
(* ------------------------------------------------------------------ *)

\* Requests in flight that run handler op.
InFlight(op) == Cardinality({q \in Procs : loc[q].op = op})

\* profile = get_object_or_404(Profile, user=request.user);
\* rank = profile.get_rank(); "if not rank: return"
OT_Start(p, users, cap) ==
  /\ CanStart(p)
  /\ Len(db.trades) + InFlight("open_trade") < cap
  /\ \E u \in users :
       /\ Track(p, "open_trade", 0, u)
       /\ IF get_rank(db.profile[u]) = NoRank
          THEN Finish(p)
          ELSE /\ Goto(p, "ot_count")
               /\ loc' = [loc EXCEPT ![p] =
                            [Blank EXCEPT !.op = "open_trade", !.u = u,
                                          !.prof = db.profile[u]]]
  /\ UNCHANGED << now, db, depLock >>

\* get_concurrent_copy_trades(user): the user's trades created in the last
\* 24 hours
trades_last_24h(u) ==
  Cardinality({t \in 1..Len(db.trades) :
                 /\ db.trades[t].user = u
                 /\ db.trades[t].created_at >= now - DaySeconds})

\* "if trades_last_24h >= max_trades_allowed: return";
\* "if profile.principal_balance <= 0: return"
OT_Count(p) ==
  /\ pc[p] = "ot_count"
  /\ IF \/ trades_last_24h(loc[p].u) >= Ranks[get_rank(loc[p].prof)].copy_trades_limit
        \/ principal_balance(loc[p].prof) <= 0
     THEN Finish(p)
     ELSE Goto(p, "ot_create") /\ UNCHANGED loc
  /\ UNCHANGED << now, db, depLock, hist >>

\* The trade created with a first profit of one cent instead of 0.
OT_Create_Seeded(p) ==
  /\ pc[p] = "ot_create"
  /\ db' = [db EXCEPT !.trades = Append(@,
              [user |-> loc[p].u, profit |-> Cent, status |-> "pending",
               created_at |-> now])]
  /\ Finish(p)
  /\ UNCHANGED << now, depLock, hist >>

\* CopyTrade.objects.create(user=..., profit=Decimal('0'), status='pending')
OT_Create(p) ==
  /\ pc[p] = "ot_create"
  /\ db' = [db EXCEPT !.trades = Append(@,
              [user |-> loc[p].u, profit |-> 0, status |-> "pending",
               created_at |-> now])]
  /\ Finish(p)
  /\ UNCHANGED << now, depLock, hist >>

(* ------------------------------------------------------------------ *)
(* Withdrawals: finance_view (crypto and local), local_withdrawal_view *)
(* ------------------------------------------------------------------ *)

\* The check against the whole principal instead of the withdrawable part.
WithdrawGuard_Principal(prof, amt) == amt <= principal_balance(prof)

\* "if amt > profile.withdrawable_balance: return"
WithdrawGuard(prof, amt) == amt <= prof.withdrawable_balance

\* profile = request.user.profile at the start of the view; the form is
\* valid; "if amt > profile.withdrawable_balance: return";
\* profile.withdrawable_balance -= amt
WD_Start(p, users, amounts, kinds) ==
  /\ CanStart(p)
  /\ Len(db.withdrawals) + InFlight("withdraw") < MaxWithdrawals
  /\ \E u \in users, amt \in amounts, kind \in kinds :
       /\ Track(p, "withdraw", amt, u)
       /\ IF ~ WithdrawGuard(db.profile[u], amt)
          THEN Finish(p)
          ELSE /\ Goto(p, "wd_save")
               /\ loc' = [loc EXCEPT ![p] =
                            [Blank EXCEPT !.op = "withdraw", !.u = u, !.id = amt,
                               !.row = [kind |-> kind],
                               !.prof = [db.profile[u] EXCEPT
                                           !.withdrawable_balance = @ - amt]]]
  /\ UNCHANGED << now, db, depLock >>

\* profile.save(update_fields=['withdrawable_balance'])
WD_Save(p) ==
  /\ pc[p] = "wd_save"
  /\ db' = [db EXCEPT !.profile[loc[p].u].withdrawable_balance =
                        Round2(loc[p].prof.withdrawable_balance)]
  /\ hist' = [hist EXCEPT !.expW[loc[p].u] = @ - loc[p].id]
  /\ Goto(p, "wd_create")
  /\ UNCHANGED << now, depLock, loc >>

\* Withdrawal.objects.create(..., status='pending_admin_approval') or
\* LocalWithdrawal.objects.create(..., status='pending_admin_approval'); the
\* local branches return here.
WD_Create(p) ==
  /\ pc[p] = "wd_create"
  /\ db' = [db EXCEPT !.withdrawals = Append(@,
              [user |-> loc[p].u, amount |-> loc[p].id, kind |-> loc[p].row.kind,
               status |-> "pending_admin_approval"])]
  /\ IF loc[p].row.kind = "crypto"
     THEN Goto(p, "wd_rank") /\ UNCHANGED loc
     ELSE Finish(p)
  /\ UNCHANGED << now, depLock, hist >>

\* profile.save(update_fields=['last_withdrawal_at']); profile.update_rank()
WD_Rank(p) ==
  /\ pc[p] = "wd_rank"
  /\ RankWrite(loc[p].u, loc[p].prof)
  /\ Finish(p)
  /\ UNCHANGED << now, depLock, hist >>

\* "if w.status not in ['pending', 'pending_admin_approval']: return"
WithdrawalPending(w) == w.status \in {"pending", "pending_admin_approval"}

\* admin_withdrawal_approve_view, admin_local_withdrawal_approve_view:
\* w = get_object_or_404(...); the status check
WA_Start(p) ==
  /\ CanStart(p)
  /\ \E w \in 1..Len(db.withdrawals) :
       /\ Track(p, "withdrawal_approve", w, db.withdrawals[w].user)
       /\ IF ~ WithdrawalPending(db.withdrawals[w])
          THEN Finish(p)
          ELSE /\ Goto(p, "wa_save")
               /\ loc' = [loc EXCEPT ![p] =
                            [Blank EXCEPT !.op = "withdrawal_approve", !.id = w]]
  /\ UNCHANGED << now, db, depLock >>

\* w.status = 'approved'; w.save(update_fields=['status', 'processed_at'])
WA_Save(p) ==
  /\ pc[p] = "wa_save"
  /\ db' = [db EXCEPT !.withdrawals[loc[p].id].status = "approved"]
  /\ Finish(p)
  /\ UNCHANGED << now, depLock, hist >>

\* admin_withdrawal_reject_view, admin_local_withdrawal_reject_view:
\* w = get_object_or_404(...); the status check
WR_Start(p) ==
  /\ CanStart(p)
  /\ \E w \in 1..Len(db.withdrawals) :
       /\ Track(p, "withdrawal_reject", w, db.withdrawals[w].user)
       /\ IF ~ WithdrawalPending(db.withdrawals[w])
          THEN Finish(p)
          ELSE /\ Goto(p, "wr_profile")
               /\ loc' = [loc EXCEPT ![p] =
                            [Blank EXCEPT !.op = "withdrawal_reject", !.id = w,
                                          !.row = db.withdrawals[w]]]
  /\ UNCHANGED << now, db, depLock >>

\* profile = get_object_or_404(Profile, user=w.user);
\* profile.withdrawable_balance += w.amount
WR_Profile(p) ==
  /\ pc[p] = "wr_profile"
  /\ loc' = [loc EXCEPT ![p].prof =
               [db.profile[loc[p].row.user] EXCEPT
                  !.withdrawable_balance = @ + loc[p].row.amount]]
  /\ Goto(p, "wr_save_prof")
  /\ UNCHANGED << now, db, depLock, hist >>

\* profile.save(update_fields=['withdrawable_balance'])
WR_SaveProfile(p) ==
  /\ pc[p] = "wr_save_prof"
  /\ db' = [db EXCEPT !.profile[loc[p].row.user].withdrawable_balance =
                        Round2(loc[p].prof.withdrawable_balance)]
  /\ hist' = [hist EXCEPT
               !.expW[loc[p].row.user] = @ + Once(hist.refunds[loc[p].id], loc[p].row.amount),
               !.refunds[loc[p].id] = @ + 1]
  /\ Goto(p, "wr_save")
  /\ UNCHANGED << now, depLock, loc >>

\* w.status = 'rejected'; w.save(update_fields=['status', 'processed_at'])
WR_Save(p) ==
  /\ pc[p] = "wr_save"
  /\ db' = [db EXCEPT !.withdrawals[loc[p].id].status = "rejected"]
  /\ Finish(p)
  /\ UNCHANGED << now, depLock, hist >>

(* ------------------------------------------------------------------ *)
(* referral_view: promo code redemption                                *)
(* ------------------------------------------------------------------ *)

\* The one PromoCode row of the model: active, bonus between $1.00 and $2.00,
\* no expiration, usable PromoLimit times.
Promo == [bonus_min |-> 1 * Dollar, bonus_max |-> 2 * Dollar,
          expiration |-> NoTime, usage_limit |-> PromoLimit]

\* bonus = promo.bonus_min + (promo.bonus_max - promo.bonus_min) *
\* Decimal(str(random.random())), the draw r in ten-thousandths.
PromoBonus(r) == Promo.bonus_min + ((Promo.bonus_max - Promo.bonus_min) * r) \div 10000

\* profile = get_object_or_404(Profile, user=request.user)
PR_Start(p, users, cap) ==
  /\ CanStart(p)
  /\ Len(db.deposits) + InFlight("promo") < cap
  /\ \E u \in users :
       /\ Track(p, "promo", 0, u)
       /\ loc' = [loc EXCEPT ![p] =
                    [Blank EXCEPT !.op = "promo", !.u = u, !.prof = db.profile[u]]]
  /\ Goto(p, "pr_promo")
  /\ UNCHANGED << now, db, depLock >>

\* promo = PromoCode.objects.filter(code=code, status='active').first() and
\* the checks of expiration and usage_limit on that object
PR_Promo(p) ==
  /\ pc[p] = "pr_promo"
  /\ IF \/ (Promo.expiration # NoTime /\ Promo.expiration < now)
        \/ db.promo_usage >= Promo.usage_limit
     THEN Finish(p)
     ELSE /\ loc' = [loc EXCEPT ![p].row = [usage_count |-> db.promo_usage]]
          /\ Goto(p, "pr_exists")
  /\ UNCHANGED << now, db, depLock, hist >>

\* "if PromoRedemption.objects.filter(user=..., promo_code=promo).exists():
\* return"; then the bonus is drawn
PR_Exists(p, draws) ==
  /\ pc[p] = "pr_exists"
  /\ IF \E i \in 1..Len(db.redemptions) : db.redemptions[i].user = loc[p].u
     THEN Finish(p)
     ELSE /\ \E r \in draws : loc' = [loc EXCEPT ![p].id = PromoBonus(r)]
          /\ Goto(p, "pr_deposit")
  /\ UNCHANGED << now, db, depLock, hist >>

\* Deposit.objects.create(user=..., amount=bonus, network='PROMO',
\* status='approved', expires_at=now + 30 days, approved_at=now)
PR_Deposit(p) ==
  /\ pc[p] = "pr_deposit"
  /\ db' = [db EXCEPT !.deposits = Append(@,
              [user |-> loc[p].u, amount |-> Round2(loc[p].id), status |-> "approved",
               expires_at |-> now + 30 * DaySeconds, approved_at |-> now,
               referrer |-> NoUser])]
  /\ Goto(p, "pr_save_prof")
  /\ UNCHANGED << now, depLock, loc, hist >>

\* profile.locked_balance += bonus; profile.save(update_fields=['locked_balance'])
PR_SaveProfile(p) ==
  /\ pc[p] = "pr_save_prof"
  /\ loc' = [loc EXCEPT ![p].prof.locked_balance = @ + loc[p].id]
  /\ db' = [db EXCEPT !.profile[loc[p].u].locked_balance =
                        Round2(loc[p].prof.locked_balance + loc[p].id)]
  /\ hist' = [hist EXCEPT
               !.expL[loc[p].u] = @ + Once(hist.promos[loc[p].u], Round2(loc[p].id)),
               !.promos[loc[p].u] = @ + 1]
  /\ Goto(p, "pr_redemption")
  /\ UNCHANGED << now, depLock >>

\* PromoRedemption.objects.create(user=..., promo_code=promo, bonus_amount=bonus):
\* unique_together (user, promo_code) makes a second row an IntegrityError,
\* which ends the request.
PR_Redemption(p) ==
  /\ pc[p] = "pr_redemption"
  /\ IF \E i \in 1..Len(db.redemptions) : db.redemptions[i].user = loc[p].u
     THEN Finish(p) /\ UNCHANGED db
     ELSE /\ db' = [db EXCEPT !.redemptions = Append(@,
                      [user |-> loc[p].u, bonus_amount |-> Round2(loc[p].id)])]
          /\ Goto(p, "pr_usage")
          /\ UNCHANGED loc
  /\ UNCHANGED << now, depLock, hist >>

\* The increment applied to the stored count, as an F() expression would.
PR_Usage_Fresh(p) ==
  /\ pc[p] = "pr_usage"
  /\ db' = [db EXCEPT !.promo_usage = @ + 1]
  /\ Goto(p, "pr_rank")
  /\ UNCHANGED << now, depLock, loc, hist >>

\* promo.usage_count = (promo.usage_count or 0) + 1;
\* promo.save(update_fields=['usage_count'])
PR_Usage(p) ==
  /\ pc[p] = "pr_usage"
  /\ db' = [db EXCEPT !.promo_usage = loc[p].row.usage_count + 1]
  /\ Goto(p, "pr_rank")
  /\ UNCHANGED << now, depLock, loc, hist >>

\* profile.update_rank()
PR_Rank(p) ==
  /\ pc[p] = "pr_rank"
  /\ RankWrite(loc[p].u, loc[p].prof)
  /\ Finish(p)
  /\ UNCHANGED << now, depLock, hist >>

(* ------------------------------------------------------------------ *)
(* Gateway (Paystack) deposits                                         *)
(* ------------------------------------------------------------------ *)

\* finance_view, local deposit submission: LocalDeposit.objects.create(
\* user=..., amount_usdt=..., status='pending', paystack_reference=...)
GW_Submit(p, users, amounts) ==
  /\ CanStart(p)
  /\ Len(db.local_deposits) < MaxLocalDeposits
  /\ \E u \in users, amt \in amounts :
       /\ db' = [db EXCEPT !.local_deposits = Append(@,
                   [user |-> u, amount_usdt |-> amt, status |-> "pending"])]
       /\ Track(p, "gateway_submit", Len(db.local_deposits) + 1, u)
  /\ Finish(p)
  /\ UNCHANGED << now, depLock >>

\* paystack_callback_view (GET) and paystack_verify_view:
\* deposit = LocalDeposit.objects.get(paystack_reference=reference);
\* verification_response = PaystackService.verify_transaction(reference)
GC_Start(p, cap) ==
  /\ CanStart(p)
  /\ hist.confirms + InFlight("gateway_confirm") < cap
  /\ \E d \in 1..Len(db.local_deposits), success \in BOOLEAN :
       /\ Track(p, "gateway_confirm", d, db.local_deposits[d].user)
       /\ loc' = [loc EXCEPT ![p] =
                    [Blank EXCEPT !.op = "gateway_confirm", !.id = d,
                                  !.row = db.local_deposits[d]]]
       /\ Goto(p, IF success THEN "gc_paid" ELSE "gc_failed")
  /\ UNCHANGED << now, db, depLock >>

\* deposit.status = 'failed'; deposit.save()
GC_Failed(p) ==
  /\ pc[p] = "gc_failed"
  /\ db' = [db EXCEPT !.local_deposits[loc[p].id].status = "failed"]
  /\ hist' = [hist EXCEPT !.confirms = @ + 1]
  /\ Finish(p)
  /\ UNCHANGED << now, depLock >>

\* deposit.status = 'paid'; deposit.save()
GC_Paid(p) ==
  /\ pc[p] = "gc_paid"
  /\ db' = [db EXCEPT !.local_deposits[loc[p].id].status = "paid"]
  /\ hist' = [hist EXCEPT !.confirms = @ + 1]
  /\ Goto(p, "gc_profile")
  /\ UNCHANGED << now, depLock, loc >>

\* profile = deposit.user.profile; profile.locked_balance += deposit.amount_usdt
GC_Profile(p) ==
  /\ pc[p] = "gc_profile"
  /\ loc' = [loc EXCEPT ![p].prof =
               [db.profile[loc[p].row.user] EXCEPT
                  !.locked_balance = @ + loc[p].row.amount_usdt]]
  /\ Goto(p, "gc_save_prof")
  /\ UNCHANGED << now, db, depLock, hist >>

\* profile.save(update_fields=['locked_balance'])
GC_SaveProfile(p) ==
  /\ pc[p] = "gc_save_prof"
  /\ db' = [db EXCEPT !.profile[loc[p].row.user].locked_balance =
                        Round2(loc[p].prof.locked_balance)]
  /\ hist' = [hist EXCEPT !.expL[loc[p].row.user] = @ + loc[p].row.amount_usdt]
  /\ Goto(p, "gc_rank")
  /\ UNCHANGED << now, depLock, loc >>

\* profile.update_rank()
GC_Rank(p) ==
  /\ pc[p] = "gc_rank"
  /\ RankWrite(loc[p].row.user, loc[p].prof)
  /\ Finish(p)
  /\ UNCHANGED << now, depLock, hist >>

(* ------------------------------------------------------------------ *)
(* Specifications                                                      *)
(* ------------------------------------------------------------------ *)

\* The moments the clock may reach: the ends of the lock periods.
LockEnds == { k * TickDays * DaySeconds : k \in 1..MaxTicks }

\* Two request slots, the whole deposit lifecycle of one user's deposits.
StepDep(p) ==
  \/ SubmitDeposit(p, {"u1"}, {100 * Dollar}, {NoUser}, MaxDeposits)
  \/ AV_Start(p) \/ AV_Profile(p) \/ AV_SaveDeposit(p) \/ AV_SaveProfile(p) \/ AV_Rank(p)
  \/ RJ_Start(p) \/ RJ_Save(p)
  \/ DB_Start(p, {"u1"}) \/ CT_Query(p) \/ RP_Query(p) \/ RP_Skip(p) \/ RP_Read(p)
  \/ RP_SaveProfile(p) \/ RP_SaveDeposit(p) \/ RP_Rank(p) \/ RP_Notify(p)
  \/ DB_Done(p) \/ DB_Profile(p) \/ DB_Rank(p)

NextDep == Tick(LockEnds) \/ \E p \in Procs : StepDep(p)

SpecDep == InitWith(FALSE, FALSE, 0) /\ [][NextDep]_vars

\* One request at a time, the deposit lifecycle with every user, both form
\* amounts and every referral code.  Every operation of the lifecycle leaves
\* the stored rank up to date, so the dashboard's final update_rank() writes
\* nothing, and the reaper never meets a deposit larger than the locked balance.
StepSeq(p) ==
  \/ SubmitDeposit(p, Users, AmountChoices, Users \cup {NoUser}, MaxDeposits)
  \/ AV_Start(p) \/ AV_Profile(p) \/ AV_SaveDeposit(p) \/ AV_RefRead(p) \/ AV_RefSave(p)
  \/ AV_Referral(p) \/ AV_RefRank(p) \/ AV_SaveProfile(p) \/ AV_Rank(p)
  \/ AA_Start(p) \/ AA_Profile(p) \/ AA_SaveProfile(p) \/ AA_SaveDeposit(p) \/ AA_RefRead(p)
  \/ AA_RefSave(p) \/ AA_Referral(p) \/ AA_RefRank(p) \/ AA_Rank(p) \/ AA_Notify(p)
  \/ RJ_Start(p) \/ RJ_Save(p)
  \/ DB_Start(p, Users) \/ CT_Query(p) \/ RP_Query(p) \/ RP_Read(p)
  \/ RP_SaveProfile(p) \/ RP_SaveDeposit(p) \/ RP_Rank(p) \/ RP_Notify(p)
  \/ DB_Done(p)
  \/ Return(p)

NextSeq == Tick(LockEnds) \/ \E p \in Procs : StepSeq(p)

SpecSeq == InitWith(TRUE, TRUE, 0) /\ [][NextSeq]_vars

\* One request at a time, the deposits of both users from submission to
\* expiry, approved through the view, the dashboard opened by u1.
StepReap(p) ==
  \/ SubmitDeposit(p, Users, AmountChoices, {NoUser}, MaxDeposits)
  \/ AV_Start(p) \/ AV_Profile(p) \/ AV_SaveDeposit(p) \/ AV_SaveProfile(p) \/ AV_Rank(p)
  \/ DB_Start(p, {"u1"}) \/ CT_Query(p) \/ RP_Query(p) \/ RP_Read(p)
  \/ RP_SaveProfile(p) \/ RP_SaveDeposit(p) \/ RP_Rank(p) \/ RP_Notify(p)
  \/ DB_Done(p)
  \/ Return(p)

NextReap == Tick(LockEnds) \/ \E p \in Procs : StepReap(p)

SpecReap == InitWith(TRUE, TRUE, 0) /\ [][NextReap]_vars

\* Approvals that may be interrupted at any step, requests served one at a
\* time: deposits of either account, with or without a referral code.
StepFail(p) ==
  \/ SubmitDeposit(p, Users, AmountChoices, Users \cup {NoUser}, MaxDeposits)
  \/ AV_Start(p) \/ AV_Profile(p) \/ AV_SaveDeposit(p) \/ AV_RefRead(p) \/ AV_RefSave(p)
  \/ AV_Referral(p) \/ AV_RefRank(p) \/ AV_SaveProfile(p) \/ AV_Rank(p)
  \/ AV_Fail(p)
  \/ AA_Start(p) \/ AA_Profile(p) \/ AA_SaveProfile(p) \/ AA_SaveDeposit(p) \/ AA_RefRead(p)
  \/ AA_RefSave(p) \/ AA_Referral(p) \/ AA_RefRank(p) \/ AA_Rank(p) \/ AA_Notify(p)
  \/ AA_Fail(p)
  \/ Return(p)

NextFail == \E p \in Procs : StepFail(p)

SpecFail == InitWith(TRUE, TRUE, 0) /\ [][NextFail]_vars

\* Overlapping approvals, by the view and by the admin action, of u1's
\* deposits referred by u2.
StepRefer(p) ==
  \/ SubmitDeposit(p, {"u1"}, {100 * Dollar}, {"u2"}, MaxDeposits)
  \/ AV_Start(p) \/ AV_Profile(p) \/ AV_SaveDeposit(p) \/ AV_RefRead(p) \/ AV_RefSave(p)
  \/ AV_Referral(p) \/ AV_RefRank(p) \/ AV_SaveProfile(p) \/ AV_Rank(p)
  \/ AA_Start(p) \/ AA_Profile(p) \/ AA_SaveProfile(p) \/ AA_SaveDeposit(p) \/ AA_RefRead(p)
  \/ AA_RefSave(p) \/ AA_Referral(p) \/ AA_RefRank(p) \/ AA_Rank(p) \/ AA_Notify(p)

NextRefer == \E p \in Procs : StepRefer(p)

SpecRefer == InitWith(FALSE, FALSE, 0) /\ [][NextRefer]_vars

\* Moments around the end of a five-minute assignment made at time 0 or 200.
LeaseTimes == {200, LEASE_SECONDS, 450}

\* Calls of get_available_wallet for one network by three users, overlapping
\* without limit, while time passes.
StepLease(p) ==
  \/ GAW_Start(p, Holders, {"USDT BEP20"}, MaxLeases) \/ GAW_Clean(p) \/ GAW_None(p) \/ GAW_Assign(p)

NextLease == Tick(LeaseTimes) \/ \E p \in Procs : StepLease(p)

SpecLease == InitWith(FALSE, FALSE, 0) /\ [][NextLease]_vars

\* The same calls, one at a time.
SpecLeaseSeq == InitWith(FALSE, TRUE, 0) /\ [][NextLease]_vars

\* Calls of get_available_wallet for either network by three users, one at
\* a time, while time passes.
StepNetworks(p) ==
  \/ GAW_Start(p, Holders, Networks, MaxLeases) \/ GAW_Clean(p) \/ GAW_None(p)
  \/ GAW_Assign(p)

NextNetworks == Tick(LeaseTimes) \/ \E p \in Procs : StepNetworks(p)

SpecNetworks == InitWith(FALSE, TRUE, 0) /\ [][NextNetworks]_vars

\* Calls of get_available_wallet one behaviour of SpecRetry may make.
MaxCalls == 5

\* Moments at which a lease made at time 0 is still running and has run out.
RetryTimes == {200, LEASE_SECONDS}

\* Calls of get_available_wallet by two users for a network of the shared
\* address list and for the network with its own list, one at a time;
\* time passes between the calls.
StepRetry(p) ==
  \/ GAW_Start(p, Users, {"USDT BEP20", "Solana"}, MaxCalls) \/ GAW_Clean(p)
  \/ GAW_None(p) \/ GAW_Assign(p)

NextRetry ==
  \/ (\A p \in Procs : pc[p] = "idle") /\ Tick(RetryTimes)
  \/ \E p \in Procs : StepRetry(p)

SpecRetry == InitWith(FALSE, TRUE, 0) /\ [][NextRetry]_vars

\* Deposit submissions the finance page may take.
MaxSubmits == 4

\* Moments within and at the end of a five-minute assignment made at time 0.
FinanceTimes == {200, LEASE_SECONDS}

\* Deposit submissions of three users for one network, each with its wallet
\* assignment, overlapping without limit, while time passes.
StepFinance(p) ==
  \/ FV_Start(p, Holders, {100 * Dollar}, MaxSubmits) \/ FV_Clean(p) \/ FV_Refused(p)
  \/ FV_Assign(p) \/ FV_Create(p)

NextFinance == Tick(FinanceTimes) \/ \E p \in Procs : StepFinance(p)

SpecFinance == InitWith(FALSE, FALSE, 0) /\ [][NextFinance]_vars

\* The same submissions, one at a time.
SpecFinanceSeq == InitWith(FALSE, TRUE, 0) /\ [][NextFinance]_vars

\* The database once u1 has a locked balance of $200.00 in the second rank
\* (10% a day, five trades a day) and has no trade yet.
TradeDb ==
  [InitDb EXCEPT
     !.profile["u1"] =
        [NoProf EXCEPT !.locked_balance = 200 * Dollar,
                       !.rank = get_rank([NoProf EXCEPT !.locked_balance = 200 * Dollar])]]

InitTrade(limited) ==
  /\ now = 0
  /\ db = TradeDb
  /\ depLock = [d \in 1..MaxDeposits |-> NoProc]
  /\ pc = [p \in Procs |-> "idle"]
  /\ loc = [p \in Procs |-> Blank]
  /\ hist = [InitHist(FALSE, limited, 0) EXCEPT !.expL["u1"] = 200 * Dollar]

\* Moments in the life of a trade opened at time 0: before profit shows,
\* during the ramp, and from the completion age on.
TradeTimes == {5, 20, COMPLETE_SECONDS, 40}

\* Outcomes of random.random() in tenths: the least and a large one.
TradeDraws == {0, 9}

\* u1 opens a copy trade and loads the dashboard, which ticks the profit of
\* the pending trades and completes the ones that are due; requests overlap
\* without limit while time passes.
StepTrade(p) ==
  \/ OT_Start(p, {"u1"}, MaxTrades) \/ OT_Count(p) \/ OT_Create(p)
  \/ DB_Start(p, {"u1"}) \/ UP_Zero(p) \/ UP_Read(p, TradeDraws) \/ UP_Save(p)
  \/ CT_Query(p) \/ CT_SaveTrade(p) \/ CT_Profile(p) \/ CT_SaveProfile(p)
  \/ RP_Query(p) \/ DB_Done(p)

NextTrade == Tick(TradeTimes) \/ \E p \in Procs : StepTrade(p)

SpecTrade == InitTrade(FALSE) /\ [][NextTrade]_vars

\* The trade requests, and a staff user who may cancel a pending trade.
NextCancel == NextTrade \/ TA_Cancel

SpecCancel == InitTrade(FALSE) /\ [][NextCancel]_vars

\* The same requests, one at a time and each served within one second: the
\* clock moves between requests only.
NextTradeSeq ==
  \/ (\A p \in Procs : pc[p] = "idle") /\ Tick(TradeTimes)
  \/ \E p \in Procs : StepTrade(p)

SpecTradeSeq == InitTrade(TRUE) /\ [][NextTradeSeq]_vars

\* The trade requests one at a time, a trade being opened only while the
\* clock can still reach its completion age.
StepTick(p) ==
  \/ (\E t \in TradeTimes : t >= now + COMPLETE_SECONDS) /\ OT_Start(p, {"u1"}, MaxTrades)
  \/ OT_Count(p) \/ OT_Create(p)
  \/ DB_Start(p, {"u1"}) \/ UP_Zero(p) \/ UP_Read(p, TradeDraws) \/ UP_Save(p)
  \/ CT_Query(p) \/ CT_SaveTrade(p) \/ CT_Profile(p) \/ CT_SaveProfile(p)
  \/ RP_Query(p) \/ DB_Done(p)

NextTick ==
  \/ (\A p \in Procs : pc[p] = "idle") /\ Tick(TradeTimes)
  \/ \E p \in Procs : StepTick(p)

\* A request that has started runs to its response.
Serve(p) == pc[p] # "idle" /\ StepTick(p)

\* Time passes, the dashboard keeps being requested and every request is
\* served.
FairTick ==
  /\ SF_vars((\A p \in Procs : pc[p] = "idle") /\ Tick(TradeTimes))
  /\ WF_vars(\E p \in Procs : DB_Start(p, {"u1"}))
  /\ \A p \in Procs : WF_vars(Serve(p))

SpecTick == InitTrade(TRUE) /\ [][NextTick]_vars /\ FairTick

\* Outcomes of random.random() for the promo bonus, in ten-thousandths.
PromoDraws == {0, 5555}

\* Redemptions of the promo code by both users, overlapping without limit.
StepPromo(p) ==
  \/ PR_Start(p, Users, MaxDeposits) \/ PR_Promo(p) \/ PR_Exists(p, PromoDraws)
  \/ PR_Deposit(p) \/ PR_SaveProfile(p) \/ PR_Redemption(p) \/ PR_Usage(p) \/ PR_Rank(p)

NextPromo == \E p \in Procs : StepPromo(p)

SpecPromo == InitWith(FALSE, FALSE, 0) /\ [][NextPromo]_vars

\* Outcomes of random.random() for the promo bonus, in ten-thousandths: one
\* that gives a bonus of $1.5555 and two that give a bonus halfway between
\* two cents, $1.125 and $1.375.
BonusDraws == {1250, 3750, 5555}

\* One request at a time: deposits of $7.55 submitted and approved through
\* the view, and redemptions of the promo code by both users.
StepBonus(p) ==
  \/ SubmitDeposit(p, Users, {755 * Cent}, {NoUser}, MaxDeposits)
  \/ AV_Start(p) \/ AV_Profile(p) \/ AV_SaveDeposit(p) \/ AV_SaveProfile(p) \/ AV_Rank(p)
  \/ PR_Start(p, Users, MaxDeposits) \/ PR_Promo(p) \/ PR_Exists(p, BonusDraws)
  \/ PR_Deposit(p) \/ PR_SaveProfile(p) \/ PR_Redemption(p) \/ PR_Usage(p) \/ PR_Rank(p)
  \/ Return(p)

NextBonus == \E p \in Procs : StepBonus(p)

SpecBonus == InitWith(TRUE, TRUE, 0) /\ [][NextBonus]_vars

\* Payment confirmations that may be delivered for gateway deposits.
MaxDeliveries == 3

\* Gateway deposits of either user and the confirmations of their payment
\* (callback redirect or verify request), one request at a time.
StepGateway(p) ==
  \/ GW_Submit(p, Users, AmountChoices)
  \/ GC_Start(p, MaxDeliveries) \/ GC_Failed(p) \/ GC_Paid(p) \/ GC_Profile(p)
  \/ GC_SaveProfile(p) \/ GC_Rank(p)

NextGateway == \E p \in Procs : StepGateway(p)

SpecGateway == InitWith(FALSE, TRUE, 0) /\ [][NextGateway]_vars

\* The deposit lifecycle of u1 with promo redemptions, requests overlapping
\* freely; a request is served within one reading of the clock, so the clock
\* reaches the end of a lock period only between requests.
StepExpiry(p) ==
  \/ StepDep(p)
  \/ PR_Start(p, {"u1"}, MaxDeposits) \/ PR_Promo(p) \/ PR_Exists(p, PromoDraws)
  \/ PR_Deposit(p) \/ PR_SaveProfile(p) \/ PR_Redemption(p) \/ PR_Usage(p) \/ PR_Rank(p)

NextExpiry ==
  \/ (\A p \in Procs : pc[p] = "idle") /\ Tick(LockEnds)
  \/ \E p \in Procs : StepExpiry(p)

SpecExpiry == InitWith(FALSE, FALSE, 0) /\ [][NextExpiry]_vars

\* The database once u1 has a locked balance of $50.00 in the first rank
\* (two trades a day); u2 has no balance and no rank.
OpenDb ==
  [InitDb EXCEPT
     !.profile["u1"] =
        [NoProf EXCEPT !.locked_balance = 50 * Dollar,
                       !.rank = get_rank([NoProf EXCEPT !.locked_balance = 50 * Dollar])]]

InitOpen(limited) ==
  /\ now = 0
  /\ db = OpenDb
  /\ depLock = [d \in 1..MaxDeposits |-> NoProc]
  /\ pc = [p \in Procs |-> "idle"]
  /\ loc = [p \in Procs |-> Blank]
  /\ hist = [InitHist(FALSE, limited, 0) EXCEPT !.expL["u1"] = 50 * Dollar]

\* Moments around the end of the 24 hours after a trade opened at time 0 or 10.
OpenTimes == {10, DaySeconds, DaySeconds + 10}

\* Both users post the copy trade form, overlapping without limit, while
\* time passes.
StepOpen(p) == OT_Start(p, Users, MaxOpens) \/ OT_Count(p) \/ OT_Create(p)

NextOpen == Tick(OpenTimes) \/ \E p \in Procs : StepOpen(p)

SpecOpen == InitOpen(FALSE) /\ [][NextOpen]_vars

\* The same requests, one at a time.
SpecOpenSeq == InitOpen(TRUE) /\ [][NextOpen]_vars

\* The database once u1 has submitted a deposit of $150.00 at time 0 without
\* a referral code, an admin has approved it, and u1 has opened a copy trade
\* and has submitted a gateway deposit of $99.00.
LedgerDb ==
  [InitDb EXCEPT
     !.profile["u1"] =
        [NoProf EXCEPT !.locked_balance = 150 * Dollar,
                       !.rank = get_rank([NoProf EXCEPT !.locked_balance = 150 * Dollar])],
     !.deposits = << ApprovedRow([user |-> "u1", amount |-> 150 * Dollar,
                                  status |-> "pending", expires_at |-> NoTime,
                                  approved_at |-> NoTime, referrer |-> NoUser], 0) >>,
     !.trades = << [user |-> "u1", profit |-> 0, status |-> "pending", created_at |-> 0] >>,
     !.local_deposits = << [user |-> "u1", amount_usdt |-> 99 * Dollar, status |-> "pending"] >>]

InitLedger(overlaps) ==
  /\ now = 0
  /\ db = LedgerDb
  /\ depLock = [d \in 1..MaxDeposits |-> NoProc]
  /\ pc = [p \in Procs |-> "idle"]
  /\ loc = [p \in Procs |-> Blank]
  /\ hist = [InitHist(FALSE, TRUE, overlaps) EXCEPT !.expL["u1"] = 150 * Dollar,
                                             !.approvals[1] = 1,
                                             !.credits[1] = 1]

\* The ledger of u1 with $5.00 withdrawable.
WithdrawDb == [LedgerDb EXCEPT !.profile["u1"].withdrawable_balance = 5 * Dollar]

InitWithdraw(overlaps) ==
  /\ now = 0
  /\ db = WithdrawDb
  /\ depLock = [d \in 1..MaxDeposits |-> NoProc]
  /\ pc = [p \in Procs |-> "idle"]
  /\ loc = [p \in Procs |-> Blank]
  /\ hist = [InitHist(TRUE, TRUE, overlaps) EXCEPT !.expL["u1"] = 150 * Dollar,
                                                  !.expW["u1"] = 5 * Dollar,
                                                  !.approvals[1] = 1,
                                                  !.credits[1] = 1]

\* Amounts u1 asks to withdraw: within the withdrawable balance and above it.
WithdrawChoices == {250 * Cent, 10 * Dollar}

\* u1 requests withdrawals, crypto or local, while the dashboard ticks and
\* completes the pending trade; a request may overlap one other.
StepWithdraw(p) ==
  \/ WD_Start(p, {"u1"}, WithdrawChoices, {"crypto", "local"})
  \/ WD_Save(p) \/ WD_Create(p) \/ WD_Rank(p)
  \/ DB_Start(p, {"u1"}) \/ UP_Zero(p) \/ UP_Read(p, {0}) \/ UP_Save(p)
  \/ CT_Query(p) \/ CT_SaveTrade(p) \/ CT_Profile(p) \/ CT_SaveProfile(p)
  \/ RP_Query(p) \/ DB_Done(p)
  \/ Return(p)

NextWithdraw == Tick(TradeTimes) \/ \E p \in Procs : StepWithdraw(p)

SpecWithdraw == InitWithdraw(MaxOverlaps) /\ [][NextWithdraw]_vars

\* The same requests, one at a time.
SpecWithdrawSeq == InitWithdraw(0) /\ [][NextWithdraw]_vars

\* u1 requests a withdrawal, crypto or local, and the admin pages approve
\* and reject withdrawals; a request may overlap one other.
StepSettle(p) ==
  \/ WD_Start(p, {"u1"}, WithdrawChoices, {"crypto", "local"})
  \/ WD_Save(p) \/ WD_Create(p) \/ WD_Rank(p)
  \/ WA_Start(p) \/ WA_Save(p)
  \/ WR_Start(p) \/ WR_Profile(p) \/ WR_SaveProfile(p) \/ WR_Save(p)
  \/ Return(p)

NextSettle == \E p \in Procs : StepSettle(p)

SpecSettle == InitWithdraw(MaxOverlaps) /\ [][NextSettle]_vars

\* The same requests, one at a time.
SpecSettleSeq == InitWithdraw(0) /\ [][NextSettle]_vars

\* Every ledger operation on the account of u1.  One request at a time, the
\* reaper never meets a due deposit larger than the locked balance.
StepOne(p) ==
  \/ SubmitDeposit(p, {"u1"}, {150 * Dollar}, {NoUser}, MaxDeposits)
  \/ AV_Start(p) \/ AV_Profile(p) \/ AV_SaveDeposit(p) \/ AV_SaveProfile(p) \/ AV_Rank(p)
  \/ DB_Start(p, {"u1"}) \/ UP_Zero(p) \/ UP_Read(p, {0}) \/ UP_Save(p)
  \/ CT_Query(p) \/ CT_SaveTrade(p) \/ CT_Profile(p) \/ CT_SaveProfile(p)
  \/ RP_Query(p) \/ RP_Read(p) \/ RP_SaveProfile(p) \/ RP_SaveDeposit(p)
  \/ RP_Rank(p) \/ RP_Notify(p) \/ DB_Done(p) \/ DB_Profile(p) \/ DB_Rank(p)
  \/ WD_Start(p, {"u1"}, {250 * Cent}, {"crypto", "local"})
  \/ WD_Save(p) \/ WD_Create(p) \/ WD_Rank(p)
  \/ WR_Start(p) \/ WR_Profile(p) \/ WR_SaveProfile(p) \/ WR_Save(p)
  \/ PR_Start(p, {"u1"}, MaxDeposits) \/ PR_Promo(p) \/ PR_Exists(p, {5555}) \/ PR_Deposit(p)
  \/ PR_SaveProfile(p) \/ PR_Redemption(p) \/ PR_Usage(p) \/ PR_Rank(p)
  \/ GC_Start(p, MaxConfirms) \/ GC_Failed(p) \/ GC_Paid(p) \/ GC_Profile(p) \/ GC_SaveProfile(p)
  \/ GC_Rank(p)

LedgerTimes == {COMPLETE_SECONDS} \cup { t + COMPLETE_SECONDS : t \in LockEnds }

NextOne == Tick(LedgerTimes) \/ \E p \in Procs : StepOne(p)

Next == Tick(LedgerTimes) \/ \E p \in Procs : (StepOne(p) \/ RP_Skip(p))

\* The ledger with at most MaxOverlaps pairs of overlapping requests.
Init == InitLedger(MaxOverlaps)

Spec == Init /\ [][Next]_vars

\* The ledger, one request at a time.
SpecOne == InitLedger(0) /\ [][NextOne]_vars

(* ------------------------------------------------------------------ *)
(* Properties                                                          *)
(* ------------------------------------------------------------------ *)

\* No request is being served.
AllIdle == \A p \in Procs : pc[p] = "idle"

\* The band of the rank table that contains balance b, bands read as
\* [min_balance, max_balance); NoRank when b <= 0 or no band contains b.
InBand(i, b) ==
  /\ b >= Ranks[i].min_balance
  /\ (Ranks[i].max_balance = NoMax \/ b < Ranks[i].max_balance)

BandContaining(b) ==
  IF b > 0 /\ \E i \in 1..Len(Ranks) : InBand(i, b)
  THEN CHOOSE i \in 1..Len(Ranks) : InBand(i, b)
  ELSE NoRank

\* Notifications of the given kind addressed to user u in database d.
Notes(d, u, kind) ==
  Cardinality({i \in 1..Len(d.notifications) :
                 d.notifications[i].user = u /\ d.notifications[i].kind = kind})

\* Referral rows of deposit id in database d.
ReferralsOf(d, id) ==
  Cardinality({i \in 1..Len(d.referrals) : d.referrals[i].deposit = id})

\* C1: in every reachable state, under every interleaving of the ledger
\* operations, every account has locked_balance >= 0 and
\* withdrawable_balance >= 0.
C1_NonNegative ==
  \A u \in Users :
    /\ db.profile[u].locked_balance >= 0
    /\ db.profile[u].withdrawable_balance >= 0

\* A deposit has been reaped down to a locked balance of zero and a withdrawal
\* has been debited.
C1_Witness ==
  /\ hist.expiries[1] > 0
  /\ db.profile["u1"].locked_balance = 0
  /\ Len(db.withdrawals) > 0

\* C2: after every completed ledger operation the stored rank of each account
\* is the band containing locked_balance + withdrawable_balance, or unset when
\* that sum is <= 0.
C2_RankMatchesBand ==
  AllIdle =>
    \A u \in Users :
      db.profile[u].rank = BandContaining(principal_balance(db.profile[u]))

\* No operation has taken effect more than once.
NoRepeat ==
  /\ \A d \in 1..MaxDeposits :
       hist.credits[d] <= 1 /\ hist.bonuses[d] <= 1 /\ hist.expiries[d] <= 1
  /\ \A t \in 1..MaxTrades : hist.payouts[t] <= 1
  /\ \A w \in 1..MaxWithdrawals : hist.refunds[w] <= 1
  /\ \A u \in Users : hist.promos[u] <= 1

\* C3: when operations on one account run concurrently the final balances are
\* those of a serial execution: every credit and debit is reflected exactly
\* once and none is lost.
C3_Serializable ==
  (AllIdle /\ NoRepeat) =>
    \A u \in Users :
      /\ db.profile[u].locked_balance = hist.expL[u]
      /\ db.profile[u].withdrawable_balance = hist.expW[u]

\* C4: approval takes effect at most once per deposit: over repeated or
\* concurrent approve requests the owner's locked balance is credited by the
\* deposit's amount once.
C4_CreditedOnce == \A d \in 1..MaxDeposits : hist.credits[d] <= 1

\* C5: a deposit's status changes only along pending -> approved,
\* pending -> rejected and approved -> expired.
C5_Transitions ==
  [][\A d \in 1..Len(db.deposits) :
       db'.deposits[d].status # db.deposits[d].status =>
         << db.deposits[d].status, db'.deposits[d].status >> \in
           { << "pending", "approved" >>, << "pending", "rejected" >>,
             << "approved", "expired" >> }]_vars

\* C6: a reaper run that starts at the same time as the previous run ended,
\* with no operation in between, ends with the balances, ranks, deposit
\* statuses and number of notifications the previous run left.
C6_Idempotent ==
  \A p \in Procs :
    (pc[p] = "rp_loop" /\ loc[p].queue = << >> /\ hist.again) =>
      ReapView(db) = hist.reapEnd.view

\* A second reaper run has ended right after a run that expired a deposit.
C6_Witness ==
  /\ pc[1] = "rp_loop"
  /\ loc[1].queue = << >>
  /\ hist.again
  /\ hist.reapEnd.changed
  /\ \E d \in 1..Len(db.deposits) : db.deposits[d].status = "expired"

\* C7: when two reaper runs execute concurrently each due deposit is claimed
\* once: the owner's locked balance is debited for it once, not once per run.
C7_ClaimedOnce == \A d \in 1..MaxDeposits : hist.expiries[d] <= 1

\* The reaper of request p is at a due approved deposit whose owner's locked
\* balance is smaller than the deposit's amount.
MeetsAnomaly(p) ==
  /\ pc[p] = "rp_loop"
  /\ loc[p].queue # << >>
  /\ LET row == db.deposits[Head(loc[p].queue)] IN
       /\ row.status = "approved"
       /\ row.expires_at <= now
       /\ db.profile[row.user].locked_balance < row.amount

\* C8: when the reaper meets a due approved deposit whose owner has
\* locked_balance < amount, the deposit stays approved, the balances stay
\* unchanged and a report of the anomaly is produced.
C8_AnomalyReported ==
  [][\A p \in Procs :
       (MeetsAnomaly(p) /\ loc'[p].queue # loc[p].queue) =>
         /\ db'.deposits = db.deposits
         /\ db'.profile = db.profile
         /\ Len(db'.notifications) > Len(db.notifications)]_vars

\* C9: from locked_balance = 0 and withdrawable_balance = 0, approving a
\* pending deposit of amount A without referrer gives locked_balance = A and
\* rank = the band containing A; a reaper run after expires_at then gives
\* locked_balance = 0, status expired and rank unset, with a demotion
\* notification exactly when the rank stored before differs from the
\* recomputed one.
C9_Scenario ==
  LET pre == hist.last.pre
      id  == hist.last.id
      u   == hist.last.u
  IN  /\ ( /\ pc[1] = "done"
           /\ hist.last.op \in {"approve_view", "approve_action"}
           /\ pre.deposits[id].status = "pending"
           /\ ~ HasReferrer(pre.deposits[id])
           /\ pre.profile[u].locked_balance = 0
           /\ pre.profile[u].withdrawable_balance = 0 )
         => /\ db.profile[u].locked_balance = pre.deposits[id].amount
            /\ db.profile[u].rank = BandContaining(pre.deposits[id].amount)
      /\ ( /\ pc[1] = "done"
           /\ hist.last.op = "dashboard" )
         => \A d \in 1..Len(pre.deposits) :
              LET row == pre.deposits[d]
                  due(e) == /\ pre.deposits[e].status = "approved"
                            /\ pre.deposits[e].expires_at <= now
              IN  ( /\ due(d)
                    /\ \A e \in 1..Len(pre.deposits) : due(e) => e = d
                    /\ pre.profile[row.user].locked_balance = row.amount
                    /\ pre.profile[row.user].withdrawable_balance = 0 )
                  => /\ db.profile[row.user].locked_balance = 0
                     /\ db.deposits[d].status = "expired"
                     /\ db.profile[row.user].rank = NoRank
                     /\ (Notes(db, row.user, "demoted") = Notes(pre, row.user, "demoted") + 1)
                          <=> (pre.profile[row.user].rank # NoRank)
                     /\ Notes(db, row.user, "demoted") <= Notes(pre, row.user, "demoted") + 1

\* C10: approving a deposit of amount A whose referrer is set and differs from
\* the owner credits the referrer's locked balance by exactly A x 8% and
\* creates exactly one Referral row for the deposit; without such a referrer
\* no account receives a bonus and no Referral row is created.
C10_ReferralBonus ==
  LET pre == hist.last.pre
      id  == hist.last.id
      row == pre.deposits[id]
  IN  ( /\ pc[1] = "done"
        /\ hist.last.op \in {"approve_view", "approve_action"}
        /\ row.status = "pending" )
      => IF HasReferrer(row)
         THEN /\ db.profile[row.referrer].locked_balance =
                   pre.profile[row.referrer].locked_balance + Bonus(row.amount)
              /\ ReferralsOf(pre, id) = 0
              /\ ReferralsOf(db, id) = 1
         ELSE /\ \A u \in Users \ {row.user} : db.profile[u] = pre.profile[u]
              /\ db.referrals = pre.referrals

\* The deposit's own approval in database d, measured against database pre:
\* "applied" is status approved with the owner's locked balance raised by the
\* amount, "absent" is the row and the owner's balance as they were.
OwnApplied(pre, d, id) ==
  /\ d.deposits[id].status = "approved"
  /\ d.profile[pre.deposits[id].user].locked_balance =
       pre.profile[pre.deposits[id].user].locked_balance + pre.deposits[id].amount

OwnAbsent(pre, d, id) ==
  /\ d.deposits[id] = pre.deposits[id]
  /\ d.profile[pre.deposits[id].user].locked_balance =
       pre.profile[pre.deposits[id].user].locked_balance

\* The referral settlement of the deposit: the referrer's locked credit and
\* the Referral row.
RefApplied(pre, d, id) ==
  /\ d.profile[pre.deposits[id].referrer].locked_balance =
       pre.profile[pre.deposits[id].referrer].locked_balance
         + Round2(Bonus(pre.deposits[id].amount))
  /\ ReferralsOf(d, id) = ReferralsOf(pre, id) + 1

RefAbsent(pre, d, id) ==
  /\ d.profile[pre.deposits[id].referrer] = pre.profile[pre.deposits[id].referrer]
  /\ ReferralsOf(d, id) = ReferralsOf(pre, id)

\* An approval of a pending deposit with a distinct referrer has ended, by
\* returning or by failing.
ReferredApprovalEnded(p, ops) ==
  /\ pc[p] = "done"
  /\ hist.last.op \in ops
  /\ hist.last.pre.deposits[hist.last.id].status = "pending"
  /\ HasReferrer(hist.last.pre.deposits[hist.last.id])

\* C11: after an approval of a deposit with a distinct referrer has finished
\* or has been interrupted by a failure at any step, the deposit's own
\* approval (status approved, owner credited) and the referral settlement
\* (referrer credited, Referral row) are both applied or both absent.
C11_AllOrNothing ==
  \A p \in Procs :
    ReferredApprovalEnded(p, {"approve_view", "approve_action"}) =>
      \/ OwnApplied(hist.last.pre, db, hist.last.id)
           /\ RefApplied(hist.last.pre, db, hist.last.id)
      \/ OwnAbsent(hist.last.pre, db, hist.last.id)
           /\ RefAbsent(hist.last.pre, db, hist.last.id)

\* Entry i of the lease log is a grant that has not expired at time t.
ActiveLease(i, t) ==
  /\ hist.leases[i].wallet # NoWallet
  /\ t - hist.leases[i].at < LEASE_SECONDS

\* C12: at every instant and under any interleaving of concurrent lease calls
\* for the same network, no address is held by active (non-expired) leases of
\* two different holders.
C12_ExclusiveLease ==
  \A i, j \in 1..Len(hist.leases) :
    (/\ ActiveLease(i, now) /\ ActiveLease(j, now)
     /\ hist.leases[i].holder # hist.leases[j].holder)
    => hist.leases[i].wallet # hist.leases[j].wallet

\* The first k lease calls came from k distinct holders, and every one
\* before the k-th returned an address whose lease is active at the k-th.
DistinctHolders(k) ==
  /\ \A i, j \in 1..k : i # j => hist.leases[i].holder # hist.leases[j].holder
  /\ \A i \in 1..(k - 1) : ActiveLease(i, hist.leases[k].at)

\* C13: for a network with N addresses, N lease requests from N distinct
\* holders all return an address and the N addresses are pairwise distinct;
\* a further request from another holder before any of those leases expires
\* returns no address and a strictly positive wait estimate.
C13_Pool ==
  \A k \in 1..Len(hist.leases) :
    DistinctHolders(k) =>
      /\ k <= Cardinality(Wallets) =>
           /\ hist.leases[k].wallet # NoWallet
           /\ \A i \in 1..(k - 1) : hist.leases[i].wallet # hist.leases[k].wallet
      /\ k = Cardinality(Wallets) + 1 =>
           /\ hist.leases[k].wallet = NoWallet
           /\ hist.leases[k].wait > 0

\* C14: a trade's final profit is credited to its owner's withdrawable
\* balance exactly once across repeated or concurrent completion runs: with
\* no request in flight, the withdrawable balance is the sum of one credit of
\* the final profit per completed trade.
C14_PaidOnce ==
  AllIdle => \A u \in Users : db.profile[u].withdrawable_balance = hist.expW[u]

\* C15: once a trade's status is completed its profit never changes again,
\* and the amount the first completion credits to the owner's withdrawable
\* balance equals the trade's stored profit, under any interleaving of the
\* profit tick with completion.
C15_Frozen ==
  [][\A t \in 1..Len(db.trades) :
       /\ db.trades[t].status = "completed" => db'.trades[t].profit = db.trades[t].profit
       /\ (hist.payouts[t] = 0 /\ hist'.payouts[t] = 1) =>
            db'.profile[db.trades[t].user].withdrawable_balance
              - db.profile[db.trades[t].user].withdrawable_balance
            = db'.trades[t].profit]_vars

\* C16: for every pending trade the stored profit is >= 0 after every tick,
\* and it is exactly 0 as long as the trade's age is below 10 seconds: the
\* trade is created with profit 0 and every tick at that age stores 0.
C16_ProfitFloor ==
  \A t \in 1..Len(db.trades) :
    db.trades[t].status = "pending" =>
      /\ db.trades[t].profit >= 0
      /\ now - db.trades[t].created_at < PROFIT_START_SECONDS => db.trades[t].profit = 0

\* A tick has stored a positive profit in a trade that is still pending.
C16_Witness ==
  \E t \in 1..Len(db.trades) :
    /\ db.trades[t].status = "pending"
    /\ db.trades[t].profit > 0
    /\ now - db.trades[t].created_at >= PROFIT_START_SECONDS

\* C17: with the bands [0,100) at 5% and 2 trades and [100,inf) at 10% and
\* 5 trades, an account with a locked balance of 200 has a per-trade target
\* of 4 (a daily target of 20 over 5 trades), and the profit of a completed
\* trade lies within [0.95 x 0.95 x 4, 1.05 x 1.10 x 4].
C17_Band ==
  /\ ProfitPerTrade(db.profile["u1"]) = 4 * Dollar * 100
  /\ \A t \in 1..Len(db.trades) :
       db.trades[t].status = "completed" =>
         /\ db.trades[t].profit * 10000 >= 95 * 95 * 4 * Dollar
         /\ db.trades[t].profit * 10000 <= 105 * 110 * 4 * Dollar

\* Rows of user u in sequence rows.
RowsOf(rows, u) == Cardinality({i \in 1..Len(rows) : rows[i].user = u})

\* C18: for every account and the promo code, at most one PromoRedemption
\* exists and the bonus is credited at most once: a second redeem by the
\* same account, sequential or concurrent with the first, leaves balances
\* and deposits as the first left them, so each account has at most one
\* bonus deposit and, with no request in flight, a locked balance of one bonus.
C18_RedeemedOnce ==
  \A u \in Users :
    /\ RowsOf(db.redemptions, u) <= 1
    /\ RowsOf(db.deposits, u) <= 1
    /\ AllIdle => db.profile[u].locked_balance = hist.expL[u]

\* C19: the usage count of the promo code never exceeds its usage limit,
\* also when distinct accounts redeem concurrently, and a redeem that finds
\* the usage count at the limit ends at that check and changes nothing.
\* (The stored count is the count the request read plus one, and the request
\* read a count below the limit; the number of PromoRedemption rows is not
\* bounded by this.)
C19_UsageLimit ==
  /\ [](db.promo_usage <= Promo.usage_limit)
  /\ [][\A p \in Procs :
          (pc[p] = "pr_promo" /\ pc'[p] # "pr_promo"
           /\ db.promo_usage >= Promo.usage_limit)
          => db' = db /\ pc'[p] = "idle"]_vars

\* Both accounts have redeemed the code in overlapping requests, and the
\* usage count stands at the limit.
C19_Witness ==
  /\ RowsOf(db.redemptions, "u1") = 1 /\ RowsOf(db.redemptions, "u2") = 1
  /\ db.promo_usage = Promo.usage_limit
  /\ AllIdle

\* C20: a withdrawal request whose amount exceeds the account's current
\* withdrawable balance ends at that check and changes no state (no balance
\* change, no withdrawal record); otherwise it goes on to its debit, and the
\* debit lowers the withdrawable balance by exactly the amount and leaves
\* the locked balance unchanged.
C20_ExactDebit ==
  [][\A p \in Procs :
       /\ (pc[p] = "idle" /\ pc'[p] # "idle" /\ hist'.last.op = "withdraw") =>
            IF hist'.last.id > db.profile[hist'.last.u].withdrawable_balance
            THEN pc'[p] = "done" /\ db' = db
            ELSE pc'[p] = "wd_save"
       /\ (pc[p] = "wd_save" /\ pc'[p] = "wd_create") =>
            /\ db'.profile[loc[p].u].withdrawable_balance =
                 db.profile[loc[p].u].withdrawable_balance - loc[p].id
            /\ db'.profile[loc[p].u].locked_balance =
                 db.profile[loc[p].u].locked_balance]_vars

\* C21: a trade's status changes only from pending, to completed only in a
\* completion run at which the trade's age is >= 35 seconds and to cancelled
\* only by the administrative action, never by a step of a request; the
\* status of a completed or cancelled trade never changes.
C21_TradeTransitions ==
  [][\A t \in 1..Len(db.trades) :
       db'.trades[t].status # db.trades[t].status =>
         /\ db.trades[t].status = "pending"
         /\ db'.trades[t].status \in {"completed", "cancelled"}
         /\ db'.trades[t].status = "completed" =>
              /\ now - db.trades[t].created_at >= COMPLETE_SECONDS
              /\ \E p \in Procs : pc[p] = "ct_loop" /\ pc'[p] = "ct_profile"
         /\ db'.trades[t].status = "cancelled" => pc' = pc]_vars

\* Trades of the owner of trade t created in the 24 hours up to t's creation.
TradesInWindow(t) ==
  Cardinality({s \in 1..Len(db.trades) :
                 /\ db.trades[s].user = db.trades[t].user
                 /\ db.trades[s].created_at <= db.trades[t].created_at
                 /\ db.trades[s].created_at >= db.trades[t].created_at - DaySeconds})

\* C22: a trade exists only for an account that has a rank and a positive
\* principal, and the trades of an account created within the 24 hours up to
\* any of them never outnumber the trade quota of its rank, also when the
\* form is posted concurrently.  (The balances do not change here, so the
\* rank is the one the account had at every opening.)
C22_Quota ==
  \A t \in 1..Len(db.trades) :
    LET prof == db.profile[db.trades[t].user] IN
      /\ get_rank(prof) # NoRank
      /\ principal_balance(prof) > 0
      /\ TradesInWindow(t) <= Ranks[get_rank(prof)].copy_trades_limit

\* C23: for the table of contiguous bands, get_rank returns for every
\* principal balance p > 0 the band with min_balance <= p < max_balance (no
\* upper end for the unbounded band) and no rank for p <= 0: a balance equal
\* to a band's max_balance belongs to the next band.
C23_GetRank ==
  \A u \in Users :
    get_rank(db.profile[u]) = BandContaining(principal_balance(db.profile[u]))

\* C24: a deposit is moved to expired only from approved and only when
\* now >= expires_at, and every approved deposit expires 30 days after its
\* approval (a promo deposit: after its redemption); the reaper changes
\* neither a deposit that is not yet due nor one that is not approved.
C24_ExpiryDue ==
  /\ [](\A d \in 1..Len(db.deposits) :
          db.deposits[d].status = "approved" =>
            db.deposits[d].expires_at = add_days(db.deposits[d].approved_at, LOCK_DAYS))
  /\ [][\A d \in 1..Len(db.deposits) :
          /\ (db'.deposits[d].status = "expired" /\ db.deposits[d].status # "expired") =>
               /\ db.deposits[d].status = "approved"
               /\ now >= db.deposits[d].expires_at
          /\ ((\E p \in Procs : /\ pc[p] \in {"rp_loop", "rp_save_prof", "rp_save_dep",
                                            "rp_rank", "rp_notify"}
                                 /\ pc'[p] # pc[p])
              /\ db'.deposits[d] # db.deposits[d]) =>
               /\ db'.deposits[d] = [db.deposits[d] EXCEPT !.status = "expired"]
               /\ db.deposits[d].status = "approved"
               /\ now >= db.deposits[d].expires_at]_vars


\* A reaper pass has emptied its queue, leaving one deposit expired at or
\* after its due time and another one approved and not yet due.
C24_Witness ==
  \E p \in Procs, d, e \in 1..Len(db.deposits) :
    /\ pc[p] = "rp_loop"
    /\ loc[p].queue = << >>
    /\ db.deposits[d].status = "expired"
    /\ now >= db.deposits[d].expires_at
    /\ db.deposits[e].status = "approved"
    /\ now < db.deposits[e].expires_at


\* C25: the write of a reject request on a pending deposit sets its status
\* to rejected (with the processing time in approved_at) and changes nothing
\* else: no profile (locked balance, withdrawable balance, rank), no Referral
\* row, no other deposit; on a deposit that is not pending it changes nothing.
C25_RejectFrame ==
  [][\A p \in Procs :
       (pc[p] = "rj_save" /\ pc'[p] # "rj_save") =>
         IF db.deposits[loc[p].id].status = "pending"
         THEN db' = [db EXCEPT !.deposits[loc[p].id].status = "rejected",
                               !.deposits[loc[p].id].approved_at = now]
         ELSE db' = db]_vars


\* C26: when an approval request returns, through the approval view or the
\* admin action, having taken its deposit from pending to approved, exactly
\* one deposit-approved notification addressed to the deposit's owner has
\* been added; when the deposit was not pending, none has been added.
C26_ApprovalNotified ==
  \A p \in Procs :
    (pc[p] = "done" /\ hist.last.op \in {"approve_view", "approve_action"}) =>
      LET d == hist.last.id
          pre == hist.last.pre
          took == /\ pre.deposits[d].status = "pending"
                  /\ db.deposits[d].status = "approved" IN
        \A u \in Users :
          Notes(db, u, "approved") =
            Notes(pre, u, "approved") + (IF took /\ u = pre.deposits[d].user THEN 1 ELSE 0)


\* C27: when the notification of an approval or of an expiry is not emitted
\* because emitting it fails, the request ends with the ledger as it stood
\* right before the failing call: the balance credit or debit, the deposit's
\* status and the rank already written stay applied.
C27_NotifyFailureKeepsLedger ==
  [][\A p \in Procs :
       (/\ pc[p] \in {"aa_notify", "rp_notify"}
        /\ pc'[p] # pc[p]
        /\ db'.notifications = db.notifications) =>
         db' = db]_vars


\* Entry i of the lease log is a grant of wallet w that is younger than five
\* minutes at time t.
GrantCovers(i, w, t) ==
  /\ hist.leases[i].wallet = w
  /\ t - hist.leases[i].at < LEASE_SECONDS

\* C28: an address granted at time t is granted to no other holder by a call
\* made before t + 300 seconds, and a call is refused only while every
\* address is covered by a grant to another holder made less than 300 seconds
\* before the call: once the leases recorded at or before now - 300 are
\* discarded, their addresses are available again.
C28_LeaseLifetime ==
  /\ \A i, j \in 1..Len(hist.leases) :
       (/\ i < j
        /\ hist.leases[i].wallet # NoWallet
        /\ hist.leases[j].wallet = hist.leases[i].wallet
        /\ hist.leases[j].holder # hist.leases[i].holder)
       => hist.leases[j].at >= hist.leases[i].at + LEASE_SECONDS
  /\ \A k \in 1..Len(hist.leases) :
       hist.leases[k].wallet = NoWallet =>
         \A w \in Wallets :
           \E i \in 1..(k - 1) :
             /\ GrantCovers(i, w, hist.leases[k].at)
             /\ hist.leases[i].holder # hist.leases[k].holder


Lifetimes(assignments, t) ==
  {LEASE_SECONDS - (t - assignments[w].timestamp) :
     w \in {v \in Wallets : assignments[v] # NoLease}}

\* C30: a deposit submission that finds no address available is told to wait
\* for the smallest remaining lifetime among the active leases, a time in
\* (0, 300]; it records no lease, creates no Deposit, and its write of the
\* cleaned assignments leaves every unexpired assignment as it is.
C30_Refusal ==
  [][\A p \in Procs :
       /\ (pc[p] = "fv_pick" /\ pc'[p] \notin {"fv_pick", "fv_create"}) =>
            /\ db' = db
            /\ LET e == hist'.leases[Len(hist'.leases)] IN
                 /\ Len(hist'.leases) = Len(hist.leases) + 1
                 /\ e.wallet = NoWallet
                 /\ e.wait \in Lifetimes(loc[p].cache, loc[p].at)
                 /\ \A x \in Lifetimes(loc[p].cache, loc[p].at) : e.wait <= x
                 /\ 0 < e.wait /\ e.wait <= LEASE_SECONDS
       /\ (/\ pc[p] = "fv_clean" /\ pc'[p] = "fv_pick"
           /\ AvailableWallets(loc[p].net, loc[p].cache, loc[p].u) = {}) =>
            \A w \in Wallets :
              Cleaned(db.wallet_assignments, now)[w] # NoLease =>
                db'.wallet_assignments[w] = db.wallet_assignments[w]]_vars


\* A redemption request has returned after adding a PromoRedemption row.
Redeemed(p) ==
  /\ pc[p] = "done"
  /\ hist.last.op = "promo"
  /\ Len(db.redemptions) = Len(hist.last.pre.redemptions) + 1

\* C31: a successful redeem has created one approved Deposit whose amount lies
\* between bonus_min and bonus_max and which expires 30 days later, has
\* credited the account's locked balance by that same amount, has recorded one
\* PromoRedemption, has raised the usage count by exactly 1 and has left the
\* stored rank equal to the band of the new balance; the reaper, which debits
\* the deposit's amount, will so debit exactly what was credited.
C31_Redeem ==
  \A p \in Procs :
    Redeemed(p) =>
      LET pre == hist.last.pre
          u   == hist.last.u
          n   == Len(db.deposits)
          dep == db.deposits[n] IN
        /\ n = Len(pre.deposits) + 1
        /\ dep.user = u /\ dep.status = "approved"
        /\ Promo.bonus_min <= dep.amount /\ dep.amount <= Promo.bonus_max
        /\ dep.expires_at = dep.approved_at + 30 * DaySeconds
        /\ db.profile[u].locked_balance = pre.profile[u].locked_balance + dep.amount
        /\ db.redemptions[Len(db.redemptions)].user = u
        /\ db.promo_usage = pre.promo_usage + 1
        /\ db.profile[u].rank = get_rank(db.profile[u])


\* The sum of amount_usdt over the first n gateway deposits of user u.
RECURSIVE LocalTotal(_, _)
LocalTotal(u, n) ==
  IF n = 0 THEN 0
  ELSE LocalTotal(u, n - 1)
       + (IF db.local_deposits[n].user = u THEN db.local_deposits[n].amount_usdt ELSE 0)

\* C32: a gateway deposit is credited to its owner's locked balance at most
\* once, however often its payment confirmation is delivered: where gateway
\* deposits are the only credits, the locked balance of an account never
\* exceeds the sum of the amounts of its gateway deposits.
C32_CreditedOnce ==
  \A u \in Users :
    db.profile[u].locked_balance <= LocalTotal(u, Len(db.local_deposits))


\* The sum of the amounts of the approved deposits of user u among the first
\* n deposits.
RECURSIVE ApprovedTotal(_, _)
ApprovedTotal(u, n) ==
  IF n = 0 THEN 0
  ELSE ApprovedTotal(u, n - 1)
       + (IF db.deposits[n].user = u /\ db.deposits[n].status = "approved"
          THEN db.deposits[n].amount ELSE 0)

\* C33: with the requests served one at a time, between requests every
\* account's locked balance is at least the sum of the amounts of its
\* approved deposits, so that the reaper finds locked_balance >= amount for
\* every due deposit.
C33_Covered ==
  (\A p \in Procs : pc[p] \in {"idle", "done"}) =>
    \A u \in Users :
      db.profile[u].locked_balance >= ApprovedTotal(u, Len(db.deposits))


\* C34: a withdrawal's status changes only while it is pending, so it leaves
\* its pending state at most once; its amount is refunded at most once, and
\* only while it is pending (never after an approval); a request that
\* approves changes no profile.
C34_SettledOnce ==
  /\ [](\A w \in 1..Len(db.withdrawals) : hist.refunds[w] <= 1)
  /\ [][/\ \A w \in 1..Len(db.withdrawals) :
            db'.withdrawals[w].status # db.withdrawals[w].status =>
              WithdrawalPending(db.withdrawals[w])
        /\ \A p \in Procs :
            /\ (pc[p] = "wr_save_prof" /\ pc'[p] # "wr_save_prof") =>
                 WithdrawalPending(db.withdrawals[loc[p].id])
            /\ (pc[p] = "wa_save" /\ pc'[p] # "wa_save") =>
                 db'.profile = db.profile]_vars


\* The wallets of network n that no grant made on network n to a holder
\* other than h covers at time t.
FreeOnNetwork(n, h, t) ==
  {w \in WALLETS[n] :
     ~ \E i \in 1..Len(hist.leases) :
         /\ GrantCovers(i, w, t)
         /\ hist.leases[i].network = n
         /\ hist.leases[i].holder # h}

\* C35: the addresses a call finds available on its network are those that no
\* unexpired lease granted on that same network to another holder covers;
\* leases granted on a different network make no difference, even where the
\* networks list the same address strings.
C35_NetworksIndependent ==
  \A p \in Procs :
    pc[p] = "gaw_pick" =>
      AvailableWallets(loc[p].net, loc[p].cache, loc[p].u)
        = FreeOnNetwork(loc[p].net, loc[p].u, loc[p].at)


\* C36: when a call is refused with a wait of waitSeconds and no lease is
\* granted afterwards, the next call of the same holder for the same network
\* made waitSeconds or more after the refused one returns an address.
C36_WaitSuffices ==
  \A j, k \in 1..Len(hist.leases) :
    (/\ j < k
     /\ hist.leases[j].wallet = NoWallet
     /\ hist.leases[k].holder = hist.leases[j].holder
     /\ hist.leases[k].network = hist.leases[j].network
     /\ hist.leases[k].at >= hist.leases[j].at + hist.leases[j].wait
     /\ \A i \in (j + 1)..(k - 1) : hist.leases[i].wallet = NoWallet)
    => hist.leases[k].wallet # NoWallet


\* The ledger an approval of the pending deposit d at time t leads to from
\* database pre: the row approved, the owner credited and ranked, and for a
\* deposit with a distinct referrer the referrer credited, counted and ranked
\* and one Referral row added.
ApprovalOutcome(pre, d, t) ==
  LET row   == pre.deposits[d]
      owner == [pre.profile[row.user] EXCEPT !.locked_balance = @ + row.amount]
      ref   == CreditReferral(pre.profile[row.referrer], Bonus(row.amount))
      credited ==
        [u \in Users |->
           IF u = row.user
           THEN [owner EXCEPT !.locked_balance = Round2(@), !.rank = get_rank(owner)]
           ELSE IF HasReferrer(row) /\ u = row.referrer
           THEN [SavedProfile(ref) EXCEPT !.rank = get_rank(ref)]
           ELSE pre.profile[u]]
  IN  [profile   |-> credited,
       deposits  |-> [pre.deposits EXCEPT ![d] = ApprovedRow(row, t)],
       referrals |-> IF HasReferrer(row)
                     THEN Append(pre.referrals, ReferralRow(row, d))
                     ELSE pre.referrals]

\* C37: the approval view and the admin action, applied to a pending deposit,
\* lead from the same database to the same ledger: the same profiles (locked
\* and withdrawable balances, ranks, referral counters and earnings) of owner
\* and referrer, the same deposit rows (status, approved_at, expires_at) and
\* the same Referral rows.
C37_SameLedger ==
  \A p \in Procs :
    (/\ pc[p] = "done"
     /\ hist.last.op \in {"approve_view", "approve_action"}
     /\ hist.last.pre.deposits[hist.last.id].status = "pending") =>
      LET out == ApprovalOutcome(hist.last.pre, hist.last.id,
                                 db.deposits[hist.last.id].approved_at) IN
        /\ db.profile = out.profile
        /\ db.deposits = out.deposits
        /\ db.referrals = out.referrals

\* The approval view has returned from approving a deposit with a referrer
\* after the admin action approved another such deposit (the one with a
\* notification).
C37_Witness ==
  \E p \in Procs, e \in 1..Len(db.deposits) :
    /\ pc[p] = "done"
    /\ hist.last.op = "approve_view"
    /\ hist.last.pre.deposits[hist.last.id].status = "pending"
    /\ HasReferrer(db.deposits[hist.last.id])
    /\ e # hist.last.id
    /\ HasReferrer(db.deposits[e])
    /\ \E i \in 1..Len(db.notifications) :
         db.notifications[i].kind = "approved" /\ db.notifications[i].deposit = e


\* The Referral rows of database d whose referrer is u, and the sum of their
\* bonus amounts over the first n rows.
ReferredBy(d, u) == {i \in 1..Len(d.referrals) : d.referrals[i].referrer = u}

RECURSIVE ReferralBonuses(_, _, _)
ReferralBonuses(d, u, n) ==
  IF n = 0 THEN 0
  ELSE ReferralBonuses(d, u, n - 1)
       + (IF d.referrals[n].referrer = u THEN d.referrals[n].bonus_amount ELSE 0)

\* C38: whenever no request is in flight, every account's total_referrals and
\* valid_referrals equal the number of Referral rows naming it as referrer,
\* and its referral_earnings equal the sum of those rows' bonus amounts.
C38_Counters ==
  AllIdle =>
    \A u \in Users :
      /\ db.profile[u].total_referrals = Cardinality(ReferredBy(db, u))
      /\ db.profile[u].valid_referrals = Cardinality(ReferredBy(db, u))
      /\ db.profile[u].referral_earnings = ReferralBonuses(db, u, Len(db.referrals))


\* Request p is a dashboard request past complete_pending_trades().
PastCompletion(p) ==
  /\ loc[p].op = "dashboard"
  /\ \/ pc[p] = "rp_loop"
     \/ pc[p] = "ct_loop" /\ loc[p].queue = << >>

\* C39: while the dashboard keeps being requested, every pending trade
\* eventually becomes completed; a tick that runs when a trade is 35 seconds
\* old or older leaves it completed, and a completed trade has a profit
\* above zero.
C39_TickCompletes ==
  /\ \A t \in 1..MaxTrades :
       (Len(db.trades) >= t /\ db.trades[t].status = "pending")
         ~> (Len(db.trades) >= t /\ db.trades[t].status = "completed")
  /\ [](\A t \in 1..Len(db.trades) :
          /\ (\E p \in Procs : PastCompletion(p))
               /\ now - db.trades[t].created_at >= COMPLETE_SECONDS
             => db.trades[t].status = "completed"
          /\ db.trades[t].status = "completed" => db.trades[t].profit > 0)

\* A tick has just completed, once, a trade that was 35 seconds old or older.
C39_Witness ==
  \E p \in Procs, t \in 1..Len(db.trades) :
    /\ PastCompletion(p)
    /\ db.trades[t].status = "completed"
    /\ now - db.trades[t].created_at >= COMPLETE_SECONDS
    /\ hist.completions[t] = 1
    /\ hist.payouts[t] = 1

====
